---- MODULE Spec2Model ----
(***************************************************************************)
(* Model of the catalog_extensions listing scripts: the three annotation   *)
(* coordinators (product_offers.js, consumer_discount.js, the badge        *)
(* script) and the listing quantity controls, all writing into the         *)
(* #product-listing subtree that the webshop renderer owns.                *)
(***************************************************************************)
EXTENDS Integers, Sequences, FiniteSets, Bags, TLC

\* ---------------------------------------------------------------- bounds
MaxCards == 2
MaxInflight == 2
MaxQty == 2
MaxRenderTimers == 1
MaxCartReqs == 2
MaxBurst == 2
MaxNavs == 1

Codes == {"A", "B"}
Kinds == {"offers", "badges", "discount"}
Scripts == Kinds \cup {"qty"}

\* The identifiers for which the backend has a non-empty payload.
BackendData == {"A"}

\* Which of the scripts the page includes (each is a separate file): a
\* behaviour follows one script against the external renderer.
AnnConfigs == {{"offers"}, {"badges"}, {"discount"}}
QtyConfigs == {{"qty"}}
PageConfigs == AnnConfigs \cup QtyConfigs

\* The identifiers the renderer lists (the quantity script never compares
\* identifiers of different cards).
ListedCodes(cfg) == IF "qty" \in cfg THEN {"A"} ELSE Codes

VARIABLES
  scripts,    \* the scripts included in the page
  started,    \* scripts whose frappe.ready callback has run
  listing,    \* whether #product-listing exists in the document
  cards,      \* the cards of the listing, in document order
  payload,    \* backend data: payload[k] = identifiers with a non-empty payload
  timers,     \* timers[k] = initial setTimeout calls of coordinator k still pending
  inflight,   \* inflight[k] = bag of item_codes lists of the unanswered requests
  observing,  \* the badge script's MutationObserver is installed
  debounce,   \* the badge script's debounce timer: pending timeouts and `timer`
  lastFetch,  \* lastFetch[k] = item_codes of the latest request of k (<<>>: none yet)
  guest,      \* frappe.session.user === 'Guest'
  guestClicked, \* a guest has clicked an Add to Cart button of the listing (history)
  qtyOn,      \* the quantity script found the listing and installed its handlers
  renderTimers, \* pending setTimeout(renderQtyControls, 200): the card each captured
  cartReqs,   \* unanswered update_cart requests, in the order sent:
              \* [card, qty, dir, current, st]
  cartQty,    \* quantity of the listed item in the backend's cart as last set (-1: not set yet)
  quiet,      \* the external renderer has finished rendering the listing
  href,       \* window.location.href: the query parameters field_filters, from_filters, start
  nav,        \* the navigation started by `window.location.href = ...`, not yet committed
  navs,       \* navigations committed so far
  facetsCall, \* get_filter_facets: "none", "sent" or "answered"
  widgets,    \* the facet widgets rendered with their handlers bound
  focus,      \* the widgets the user works with in this page view: "boxes" or "price"
  checkedBoxes, \* the checked facet checkboxes: <<data-filter-name, data-filter-value>>
  maxPrice,   \* the slider ceiling
  minSlider,  \* value of #price-min
  maxSlider,  \* value of #price-max
  minInputBox, \* value of #price-input-min as parseFloat reads it
  maxInputBox, \* value of #price-input-max as parseFloat reads it
  thrown      \* an exception has left a facet handler (history)

facetVars == <<href, nav, navs, facetsCall, widgets, focus, checkedBoxes, maxPrice, minSlider, maxSlider,
               minInputBox, maxInputBox, thrown>>
pageVars == <<scripts, payload, guest, guestClicked, quiet, facetVars>>
annVars == <<timers, inflight, observing, debounce, lastFetch>>
qtyVars == <<qtyOn, renderTimers, cartReqs, cartQty>>
vars == <<scripts, started, listing, cards, payload, timers, inflight, observing, debounce,
          lastFetch, guest, guestClicked, qtyOn, renderTimers, cartReqs, cartQty, quiet, facetVars>>

\* ------------------------------------------------------------------- DOM
\* A card is [code, nodes]: nodes is the flattened child list of the card
\* body. A node is [k, h, v]: kind, `hidden` class, input value.
Node(k) == [k |-> k, h |-> FALSE, v |-> 0]

ExternalKinds == {"title", "price", "addbtn", "indicator"}
OverlayKinds == {"offer", "badge", "discount", "qty"}

\* Node kinds that carry a data-item-code attribute.
CodeKinds == {"addbtn", "indicator", "qty"}

\* Card markups the external renderer produces.
Templates ==
  { <<Node("title"), Node("price"), Node("addbtn"), [Node("indicator") EXCEPT !.h = TRUE]>>,
    <<Node("title"), Node("addbtn")>>,
    <<Node("price"), [Node("addbtn") EXCEPT !.h = TRUE], Node("indicator")>> }

MarkerOf(k) ==
  CASE k = "offers" -> "offer"
    [] k = "badges" -> "badge"
    [] k = "discount" -> "discount"

\* card.querySelector(sel): index of the first node of one of the kinds, 0 if none
RECURSIVE QuerySelectorFrom(_, _, _)
QuerySelectorFrom(nodes, K, i) ==
  IF i > Len(nodes) THEN 0
  ELSE IF nodes[i].k \in K THEN i
  ELSE QuerySelectorFrom(nodes, K, i + 1)

QuerySelector(nodes, K) == QuerySelectorFrom(nodes, K, 1)

\* parent.insertBefore(x, nodes[i].nextSibling) / appendChild when i is last;
\* i = 0 is insertBefore(x, firstChild)
InsertAfterReplacingNext(nodes, i, x) ==
  SubSeq(nodes, 1, i) \o <<x>> \o SubSeq(nodes, i + 2, Len(nodes))

InsertAfter(nodes, i, x) ==
  SubSeq(nodes, 1, i) \o <<x>> \o SubSeq(nodes, i + 1, Len(nodes))

CountKind(nodes, k) == Cardinality({i \in 1..Len(nodes) : nodes[i].k = k})

\* listing.querySelectorAll('[data-item-code]'): one entry (the card index)
\* per element carrying the attribute, in document order
RECURSIVE CardEls(_, _, _)
CardEls(nodes, ci, i) ==
  IF i > Len(nodes) THEN <<>>
  ELSE (IF nodes[i].k \in CodeKinds THEN <<ci>> ELSE <<>>) \o CardEls(nodes, ci, i + 1)

RECURSIVE ItemCodeElsFrom(_, _)
ItemCodeElsFrom(d, ci) ==
  IF ci > Len(d) THEN <<>>
  ELSE CardEls(d[ci].nodes, ci, 1) \o ItemCodeElsFrom(d, ci + 1)

ItemCodeEls(d) == ItemCodeElsFrom(d, 1)

\* listing.querySelectorAll('[data-item-code="code"]')
TargetsOfAnyCode(d, code) == ItemCodeEls(d)

TargetsFirstOnly(d, code) ==
  SubSeq(SelectSeq(ItemCodeEls(d), LAMBDA ci : d[ci].code = code), 1, 1)

Targets(d, code) == SelectSeq(ItemCodeEls(d), LAMBDA ci : d[ci].code = code)

\* codesSet.add(code) for each element, then Array.from(codesSet): insertion order
RECURSIVE CollectCodes(_, _, _)
CollectCodes(d, els, acc) ==
  IF els = <<>> THEN acc
  ELSE LET code == d[Head(els)].code
       IN CollectCodes(d, Tail(els),
            IF \E j \in 1..Len(acc) : acc[j] = code THEN acc ELSE Append(acc, code))

ItemCodesOfEveryElement(d) ==
  [j \in 1..Len(ItemCodeEls(d)) |-> d[ItemCodeEls(d)[j]].code]

ItemCodes(d) == CollectCodes(d, ItemCodeEls(d), <<>>)

\* --------------------------------------------------- overlay injection
\* card.querySelector('.offer-container' | '.ce-badges' | '.customer-discount-info')
HasOverlayNever(nodes, marker) == FALSE

HasOverlayOfAnyKind(nodes, marker) ==
  \E i \in 1..Len(nodes) : nodes[i].k \in {"offer", "badge", "discount"}

HasOverlay(nodes, marker) == QuerySelector(nodes, {marker}) # 0

\* product_offers.js, body of targets.forEach
InjectOfferCardAppending(card) ==
  IF HasOverlay(card.nodes, "offer") THEN card
  ELSE LET priceEl == QuerySelector(card.nodes, {"price"})
       IN [card EXCEPT !.nodes =
             InsertAfter(@, IF priceEl = 0 THEN Len(@) ELSE priceEl, Node("offer"))]

InjectOfferCard(card) ==
  IF HasOverlay(card.nodes, "offer") THEN card
  ELSE LET priceEl == QuerySelector(card.nodes, {"price"})
       IN IF priceEl = 0 THEN card
          ELSE [card EXCEPT !.nodes = InsertAfter(@, priceEl, Node("offer"))]

\* consumer_discount.js, body of cardButtons.forEach
InjectDiscountCard(card) ==
  LET priceEl == QuerySelector(card.nodes, {"price"})
  IN IF priceEl = 0 THEN card
     ELSE IF HasOverlay(card.nodes, "discount") THEN card
     ELSE [card EXCEPT !.nodes = InsertAfter(@, priceEl, Node("discount"))]

\* badge script, body of the querySelectorAll(...).forEach
InjectBadgeCard(card) ==
  IF HasOverlay(card.nodes, "badge") THEN card
  ELSE LET titleEl == QuerySelector(card.nodes, {"title"})
       IN [card EXCEPT !.nodes = InsertAfter(@, titleEl, Node("badge"))]

InjectCard(k, card) ==
  CASE k = "offers" -> InjectOfferCard(card)
    [] k = "badges" -> InjectBadgeCard(card)
    [] k = "discount" -> InjectDiscountCard(card)

\* targets.forEach(...): every element is looked up against the DOM as the
\* previous iterations left it
RECURSIVE InjectEls(_, _, _)
InjectEls(k, d, els) ==
  IF els = <<>> THEN d
  ELSE InjectEls(k, [d EXCEPT ![Head(els)] = InjectCard(k, @)], Tail(els))

\* `if (!offers || !offers.length) return`, `if (!discount) return`,
\* `if (!badges.length) return`
HasPayloadAlways(message, code) == TRUE

HasPayload(message, code) == code \in message

\* itemCodes.forEach(function (code) {...})
RECURSIVE InjectCodes(_, _, _, _)
InjectCodes(k, d, itemCodes, message) ==
  IF itemCodes = <<>> THEN d
  ELSE LET code == Head(itemCodes)
       IN InjectCodes(k,
            IF HasPayload(message, code) THEN InjectEls(k, d, Targets(d, code)) ELSE d,
            Tail(itemCodes), message)

\* A response r is [hasMessage, message]: message = the identifiers it gives
\* a non-empty payload.
ResponseOk(k) == [hasMessage |-> TRUE, message |-> payload[k]]
ResponseNoMessage == [hasMessage |-> FALSE, message |-> {}]

\* the frappe.call callbacks
CallbackOffers(d, itemCodes, r) ==
  IF ~r.hasMessage THEN d ELSE InjectCodes("offers", d, itemCodes, r.message)

CallbackDiscount(d, itemCodes, r) ==
  IF ~r.hasMessage THEN d ELSE InjectCodes("discount", d, itemCodes, r.message)

CallbackBadges(d, itemCodes, r) ==
  LET mapping == IF r.hasMessage THEN r.message ELSE {}
  IN InjectCodes("badges", d, itemCodes, mapping)

Callback(k, d, itemCodes, r) ==
  CASE k = "offers" -> CallbackOffers(d, itemCodes, r)
    [] k = "badges" -> CallbackBadges(d, itemCodes, r)
    [] k = "discount" -> CallbackDiscount(d, itemCodes, r)

\* Outcomes of a request: "ok" (callback with the backend's mapping), "nomsg"
\* (callback with a response that has no message), "fail" (no callback).
Outcomes == {"ok", "nomsg", "fail"}

Deliver(k, d, itemCodes, outcome) ==
  CASE outcome = "ok" -> Callback(k, d, itemCodes, ResponseOk(k))
    [] outcome = "nomsg" -> Callback(k, d, itemCodes, ResponseNoMessage)
    [] outcome = "fail" -> d

\* ------------------------------------------------------------ harvesting
\* inject*(): the item_codes lists the pass sends (none or one)
RequestsOncePerSet(k, lst, d) ==
  IF ~lst THEN <<>>
  ELSE IF ItemCodes(d) = <<>> \/ ItemCodes(d) = lastFetch[k] THEN <<>>
  ELSE <<ItemCodes(d)>>

Requests(k, lst, d) ==
  IF ~lst THEN <<>>
  ELSE IF ItemCodeEls(d) = <<>> THEN <<>>
  ELSE IF ItemCodes(d) = <<>> THEN <<>>
  ELSE <<ItemCodes(d)>>

RECURSIVE SeqToBag(_)
SeqToBag(s) == IF s = <<>> THEN EmptyBag ELSE SetToBag({Head(s)}) (+) SeqToBag(Tail(s))

\* ---------------------------------------------------------------- timers
\* setTimeout calls made in the frappe.ready callback
InitialTimers(k) ==
  CASE k = "offers" -> 1
    [] k = "discount" -> 1
    [] k = "badges" -> 3

\* `if (timer) window.clearTimeout(timer)`: the pending debounce timeouts left
ClearTimeoutNoop(db) == db.pending

ClearTimeout(db) == IF db.handle = "live" THEN db.pending - 1 ELSE db.pending

\* the MutationObserver callback of the badge script (events counts the
\* callbacks since the last expiry, up to MaxBurst)
ObserverCallbackWithoutTimer(db) ==
  [db EXCEPT !.events = IF db.pending > 0 THEN db.events ELSE 0]

ObserverCallback(db) ==
  [pending |-> ClearTimeout(db) + 1, handle |-> "live",
   events |-> IF db.events < MaxBurst THEN db.events + 1 ELSE MaxBurst]

\* childList mutations under the listing root
ChildListChanged(d1, d2) ==
  \/ Len(d1) # Len(d2)
  \/ \E i \in 1..Len(d1) :
       \/ Len(d1[i].nodes) # Len(d2[i].nodes)
       \/ \E j \in 1..Len(d1[i].nodes) : d1[i].nodes[j].k # d2[i].nodes[j].k

Observed(d) ==
  debounce' = IF observing /\ ChildListChanged(cards, d)
              THEN ObserverCallback(debounce) ELSE debounce

\* ------------------------------------------------------ quantity controls
\* a renderQtyControls without the check for existing controls
RenderQtyControlsAlwaysAppending(card, initialQty) ==
  LET appended == Append(card.nodes, [k |-> "qty", h |-> FALSE, v |-> initialQty])
      addBtn == QuerySelector(appended, {"addbtn"})
  IN [card EXCEPT !.nodes =
        IF addBtn # 0 THEN [appended EXCEPT ![addBtn].h = TRUE] ELSE appended]

\* renderQtyControls(card, itemCode, initialQty)
RenderQtyControls(card, initialQty) ==
  LET existing == QuerySelector(card.nodes, {"qty"})
  IN IF existing # 0
     THEN [card EXCEPT !.nodes[existing].h = FALSE, !.nodes[existing].v = initialQty]
     ELSE LET appended == Append(card.nodes, [k |-> "qty", h |-> FALSE, v |-> initialQty])
              addBtn == QuerySelector(appended, {"addbtn"})
          IN [card EXCEPT !.nodes =
                IF addBtn # 0 THEN [appended EXCEPT ![addBtn].h = TRUE] ELSE appended]

\* syncExistingInCartCards: one renderQtyControls(card, itemCode, 1) per
\* visible cart indicator of the card
RECURSIVE SyncIndicators(_, _)
SyncIndicators(card, i) ==
  IF i > Len(card.nodes) THEN card
  ELSE IF card.nodes[i].k = "indicator" /\ ~card.nodes[i].h
       THEN SyncIndicators(RenderQtyControls(card, 1), i + 1)
       ELSE SyncIndicators(card, i + 1)

SyncExistingInCartCards(d, scope) ==
  [ci \in 1..Len(d) |-> IF ci \in scope THEN SyncIndicators(d[ci], 1) ELSE d[ci]]

\* the callback of updateQty(card, itemCode, newQty)
UpdateQtyCallbackShowingZero(card, newQty, exc) ==
  IF exc THEN card
  ELSE LET wrapper == QuerySelector(card.nodes, {"qty"})
       IN IF wrapper = 0 THEN card
          ELSE [card EXCEPT !.nodes[wrapper].v = newQty]

UpdateQtyCallbackIgnoringExc(card, newQty, exc) ==
  LET wrapper == QuerySelector(card.nodes, {"qty"})
  IN IF wrapper = 0 THEN card
     ELSE IF newQty = 0
     THEN LET addBtn == QuerySelector(card.nodes, {"addbtn"})
              hiddenW == [card.nodes EXCEPT ![wrapper].h = TRUE, ![wrapper].v = 0]
          IN [card EXCEPT !.nodes =
                IF addBtn # 0 THEN [hiddenW EXCEPT ![addBtn].h = FALSE] ELSE hiddenW]
     ELSE [card EXCEPT !.nodes[wrapper].v = newQty]

UpdateQtyCallback(card, newQty, exc) ==
  IF exc THEN card
  ELSE LET wrapper == QuerySelector(card.nodes, {"qty"})
       IN IF wrapper = 0 THEN card
          ELSE IF newQty = 0
          THEN LET addBtn == QuerySelector(card.nodes, {"addbtn"})
                   hiddenW == [card.nodes EXCEPT ![wrapper].h = TRUE, ![wrapper].v = 0]
               IN [card EXCEPT !.nodes =
                     IF addBtn # 0 THEN [hiddenW EXCEPT ![addBtn].h = FALSE] ELSE hiddenW]
          ELSE [card EXCEPT !.nodes[wrapper].v = newQty]

\* the +/- click handler: `current`, read from the input
Current(value) == IF value < 1 THEN 1 ELSE value

\* a handler whose '+' sends the quantity shown
StepQtySameOnUp(value, dir) ==
  LET current == Current(value)
  IN IF dir = "up" THEN current
     ELSE IF current - 1 < 0 THEN 0 ELSE current - 1

\* the +/- click handler: the quantity passed to updateQty
StepQty(value, dir) ==
  LET current == Current(value)
  IN IF dir = "up" THEN current + 1
     ELSE IF current - 1 < 0 THEN 0 ELSE current - 1

\* updateQty: `if (newQty < 0) newQty = 0`
ClampQty(newQty) == IF newQty < 0 THEN 0 ELSE newQty

\* a captured card after the removal of card i (0: no longer in the document)
Reindex(c, i) == IF c = i THEN 0 ELSE IF c > i THEN c - 1 ELSE c

RemoveAt(s, i) == SubSeq(s, 1, i - 1) \o SubSeq(s, i + 1, Len(s))

\* ------------------------------------------------------ facet state codec
\* JavaScript values as the facet code sees them: t is the type, n the
\* number, s the string (a sequence of characters), items the elements of an
\* array, props the own properties of an object (or the non-index
\* properties of an array) in insertion order, each [k, v].
JsValue(t, n, s, items, props) == [t |-> t, n |-> n, s |-> s, items |-> items, props |-> props]
Undefined == JsValue("undefined", 0, <<>>, <<>>, <<>>)
Null == JsValue("null", 0, <<>>, <<>>, <<>>)
Num(n) == JsValue("num", n, <<>>, <<>>, <<>>)
Str(s) == JsValue("str", 0, s, <<>>, <<>>)
Arr(items) == JsValue("arr", 0, <<>>, items, <<>>)
Obj(props) == JsValue("obj", 0, <<>>, <<>>, props)

\* A JSON text is a sequence of tokens [c, k, s, n]: punctuation, member
\* name, string literal, number literal, null.
Tok(c) == [c |-> c, k |-> "", s |-> <<>>, n |-> 0]
KeyTok(k) == [c |-> "key", k |-> k, s |-> <<>>, n |-> 0]
StrTok(s) == [c |-> "str", k |-> "", s |-> s, n |-> 0]
NumTok(n) == [c |-> "num", k |-> "", s |-> <<>>, n |-> n]

\* obj[name] = v on a property list (a key keeps its position)
SetEntry(props, name, v) ==
  IF \E i \in 1..Len(props) : props[i].k = name
  THEN [i \in 1..Len(props) |-> IF props[i].k = name THEN [k |-> name, v |-> v] ELSE props[i]]
  ELSE Append(props, [k |-> name, v |-> v])

\* JSON.stringify(value): non-index properties of an array are not written
RECURSIVE JSONStringify(_), StringifyItems(_, _), StringifyProps(_, _)
JSONStringify(value) ==
  CASE value.t = "num" -> <<NumTok(value.n)>>
    [] value.t = "str" -> <<StrTok(value.s)>>
    [] value.t = "arr" -> <<Tok("[")>> \o StringifyItems(value.items, 1) \o <<Tok("]")>>
    [] value.t = "obj" -> <<Tok("{")>> \o StringifyProps(value.props, 1) \o <<Tok("}")>>
    [] OTHER -> <<Tok("null")>>

StringifyItems(items, i) ==
  IF i > Len(items) THEN <<>>
  ELSE (IF i > 1 THEN <<Tok(",")>> ELSE <<>>) \o JSONStringify(items[i])
         \o StringifyItems(items, i + 1)

StringifyProps(props, i) ==
  IF i > Len(props) THEN <<>>
  ELSE (IF i > 1 THEN <<Tok(",")>> ELSE <<>>) \o <<KeyTok(props[i].k), Tok(":")>>
         \o JSONStringify(props[i].v) \o StringifyProps(props, i + 1)

\* JSON.parse(text): [exc, v]; exc when the text is not one JSON value
SyntaxError == [ok |-> FALSE, v |-> Undefined, next |-> 0]

RECURSIVE ParseValue(_, _), ParseElems(_, _, _), ParseMembers(_, _, _)
ParseValue(text, i) ==
  IF i > Len(text) THEN SyntaxError
  ELSE CASE text[i].c = "null" -> [ok |-> TRUE, v |-> Null, next |-> i + 1]
         [] text[i].c = "num" -> [ok |-> TRUE, v |-> Num(text[i].n), next |-> i + 1]
         [] text[i].c = "str" -> [ok |-> TRUE, v |-> Str(text[i].s), next |-> i + 1]
         [] text[i].c = "[" ->
              IF i + 1 <= Len(text) /\ text[i + 1].c = "]"
              THEN [ok |-> TRUE, v |-> Arr(<<>>), next |-> i + 2]
              ELSE ParseElems(text, i + 1, <<>>)
         [] text[i].c = "{" ->
              IF i + 1 <= Len(text) /\ text[i + 1].c = "}"
              THEN [ok |-> TRUE, v |-> Obj(<<>>), next |-> i + 2]
              ELSE ParseMembers(text, i + 1, <<>>)
         [] OTHER -> SyntaxError

ParseElems(text, i, acc) ==
  LET e == ParseValue(text, i)
  IN IF ~e.ok \/ e.next > Len(text) THEN SyntaxError
     ELSE IF text[e.next].c = "," THEN ParseElems(text, e.next + 1, Append(acc, e.v))
     ELSE IF text[e.next].c = "]"
          THEN [ok |-> TRUE, v |-> Arr(Append(acc, e.v)), next |-> e.next + 1]
          ELSE SyntaxError

ParseMembers(text, i, acc) ==
  IF i + 1 > Len(text) \/ text[i].c # "key" \/ text[i + 1].c # ":" THEN SyntaxError
  ELSE LET e == ParseValue(text, i + 2)
       IN IF ~e.ok \/ e.next > Len(text) THEN SyntaxError
          ELSE IF text[e.next].c = ","
               THEN ParseMembers(text, e.next + 1, SetEntry(acc, text[i].k, e.v))
          ELSE IF text[e.next].c = "}"
               THEN [ok |-> TRUE, v |-> Obj(SetEntry(acc, text[i].k, e.v)), next |-> e.next + 1]
               ELSE SyntaxError

JSONParse(text) ==
  LET p == ParseValue(text, 1)
  IN IF p.ok /\ p.next = Len(text) + 1 THEN [exc |-> FALSE, v |-> p.v]
     ELSE [exc |-> TRUE, v |-> Undefined]

\* truthiness of a value (`x || {}`, `if (x)`)
Truthy(value) ==
  CASE value.t \in {"undefined", "null"} -> FALSE
    [] value.t = "num" -> value.n # 0
    [] value.t = "str" -> value.s # <<>>
    [] OTHER -> TRUE

\* value[name] for a value that is not null or undefined
GetProp(value, name) ==
  IF \E i \in 1..Len(value.props) : value.props[i].k = name
  THEN value.props[CHOOSE i \in 1..Len(value.props) : value.props[i].k = name].v
  ELSE Undefined

\* value[name] = v: ignored on a primitive (the file is not in strict mode)
SetProp(value, name, v) ==
  IF value.t \in {"obj", "arr"} THEN [value EXCEPT !.props = SetEntry(@, name, v)] ELSE value

\* delete value[name]
DeleteProp(value, name) ==
  [value EXCEPT !.props = SelectSeq(@, LAMBDA e : e.k # name)]

\* Object.keys(value).length
ObjectKeysLength(value) ==
  CASE value.t = "obj" -> Len(value.props)
    [] value.t = "arr" -> Len(value.items) + Len(value.props)
    [] value.t = "str" -> Len(value.s)
    [] OTHER -> 0

Digits == <<"0", "1", "2", "3", "4", "5", "6", "7", "8", "9">>

\* String(n) for an integer n
RECURSIVE NumberToString(_)
NumberToString(n) ==
  IF n < 0 THEN <<"-">> \o NumberToString(0 - n)
  ELSE IF n < 10 THEN <<Digits[n + 1]>>
  ELSE NumberToString(n \div 10) \o <<Digits[(n % 10) + 1]>>

ObjectObject == <<"[", "o", "b", "j", "e", "c", "t", " ", "O", "b", "j", "e", "c", "t", "]">>

\* String(value)
RECURSIVE StringOf(_), Join(_, _)
StringOf(value) ==
  CASE value.t = "num" -> NumberToString(value.n)
    [] value.t = "str" -> value.s
    [] value.t = "arr" -> Join(value.items, 1)
    [] value.t = "obj" -> ObjectObject
    [] value.t = "null" -> <<"n", "u", "l", "l">>
    [] OTHER -> <<"u", "n", "d", "e", "f", "i", "n", "e", "d">>

Join(items, i) ==
  IF i > Len(items) THEN <<>>
  ELSE (IF i > 1 THEN <<",">> ELSE <<>>)
         \o (IF items[i].t \in {"null", "undefined"} THEN <<>> ELSE StringOf(items[i]))
         \o Join(items, i + 1)

\* parseFloat(s) for a string of an optional '-' and digits: [nan, n]; the
\* longest numeric prefix is parsed, no prefix is NaN
IsDigit(c) == \E d \in 1..10 : Digits[d] = c
DigitValue(c) == (CHOOSE d \in 1..10 : Digits[d] = c) - 1
NaN == [nan |-> TRUE, n |-> 0]
Number(n) == [nan |-> FALSE, n |-> n]

RECURSIVE ParseDigits(_, _, _)
ParseDigits(s, i, acc) ==
  IF i <= Len(s) /\ IsDigit(s[i]) THEN ParseDigits(s, i + 1, acc * 10 + DigitValue(s[i]))
  ELSE acc

ParseFloatString(s) ==
  IF Len(s) >= 1 /\ IsDigit(s[1]) THEN Number(ParseDigits(s, 1, 0))
  ELSE IF Len(s) >= 2 /\ s[1] = "-" /\ IsDigit(s[2]) THEN Number(0 - ParseDigits(s, 2, 0))
  ELSE NaN

\* parseFloat(value): the argument is converted to a string first
ParseFloat(value) == ParseFloatString(StringOf(value))

\* array.map(String)
MapString(items) == [i \in 1..Len(items) |-> StringOf(items[i])]

Includes(list, x) == \E i \in 1..Len(list) : list[i] = x

\* -------------------------------------------------- facet sidebar controller
\* a query parameter: absent, or present with its decoded text
Absent == [has |-> FALSE, val |-> <<>>]
Param(val) == [has |-> TRUE, val |-> val]

EmptyMapping == Obj(<<>>)

\* try { ... } catch (e) { fallback }
Try(r, fallback) == IF r.exc THEN [exc |-> FALSE, v |-> fallback] ELSE r

\* the decode of applyFieldFilterChange and applyPriceFilter without try
DecodeFieldFiltersWithoutTry(rawFieldFilters) ==
  IF ~rawFieldFilters.has \/ rawFieldFilters.val = <<>>
  THEN [exc |-> FALSE, v |-> EmptyMapping]
  ELSE LET r == JSONParse(rawFieldFilters.val)
       IN IF r.exc THEN r
          ELSE [exc |-> FALSE, v |-> IF Truthy(r.v) THEN r.v ELSE EmptyMapping]

\* the decode of applyFieldFilterChange and applyPriceFilter: [exc, v]
DecodeFieldFilters(rawFieldFilters) ==
  IF ~rawFieldFilters.has \/ rawFieldFilters.val = <<>>
  THEN [exc |-> FALSE, v |-> EmptyMapping]
  ELSE LET r == JSONParse(rawFieldFilters.val)
       IN Try(IF r.exc THEN r
              ELSE [exc |-> FALSE, v |-> IF Truthy(r.v) THEN r.v ELSE EmptyMapping],
              EmptyMapping)

\* `existing`: the values of filterName as strings
ValuesOf(fieldFilters, filterName) ==
  LET cur == GetProp(fieldFilters, filterName)
  IN IF cur.t = "arr" THEN MapString(cur.items) ELSE <<>>

\* a toggle that pushes the value also when it is present
NextValuesPushingAlways(existing, valueStr, checked) ==
  IF checked THEN Append(existing, valueStr)
  ELSE SelectSeq(existing, LAMBDA v : v # valueStr)

\* a toggle whose unchecking leaves the list as it is
NextValuesNeverRemoving(existing, valueStr, checked) ==
  IF checked /\ ~Includes(existing, valueStr) THEN Append(existing, valueStr) ELSE existing

\* `next`
NextValues(existing, valueStr, checked) ==
  IF checked
  THEN IF Includes(existing, valueStr) THEN existing ELSE Append(existing, valueStr)
  ELSE SelectSeq(existing, LAMBDA v : v # valueStr)

\* a toggle that keeps the key of an empty list
ToggleValueKeepingEmptyKey(fieldFilters, filterName, filterValue, checked) ==
  LET next == NextValues(ValuesOf(fieldFilters, filterName), filterValue, checked)
  IN SetProp(fieldFilters, filterName, Arr([i \in 1..Len(next) |-> Str(next[i])]))

\* the toggle of applyFieldFilterChange on the decoded mapping
ToggleValue(fieldFilters, filterName, filterValue, checked) ==
  LET next == NextValues(ValuesOf(fieldFilters, filterName), filterValue, checked)
  IN IF Len(next) > 0
     THEN SetProp(fieldFilters, filterName, Arr([i \in 1..Len(next) |-> Str(next[i])]))
     ELSE DeleteProp(fieldFilters, filterName)

\* an encode that keeps the pagination offset
EncodeKeepingStart(url, fieldFilters) ==
  [url EXCEPT !.field_filters = IF ObjectKeysLength(fieldFilters) > 0
                                THEN Param(JSONStringify(fieldFilters)) ELSE Absent,
              !.from_filters = Param(<<"1">>)]

\* an encode that writes the parameter also for an empty mapping
EncodeAlwaysSetting(url, fieldFilters) ==
  [url EXCEPT !.field_filters = Param(JSONStringify(fieldFilters)),
              !.from_filters = Param(<<"1">>),
              !.start = Absent]

\* an encode that builds the query string from the filter parameters alone
EncodeDroppingOthers(url, fieldFilters) ==
  [field_filters |-> IF ObjectKeysLength(fieldFilters) > 0
                     THEN Param(JSONStringify(fieldFilters)) ELSE Absent,
   from_filters |-> Param(<<"1">>),
   start |-> Absent,
   search |-> Absent]

\* the encode of applyFieldFilterChange and applyPriceFilter: the URL
\* assigned to window.location.href (search.set and search.delete touch the
\* named parameter only)
Encode(url, fieldFilters) ==
  [url EXCEPT !.field_filters = IF ObjectKeysLength(fieldFilters) > 0
                                THEN Param(JSONStringify(fieldFilters)) ELSE Absent,
              !.from_filters = Param(<<"1">>),
              !.start = Absent]

\* applyFieldFilterChange(filterName, filterValue, checked): [exc, url]
ApplyFieldFilterChange(url, filterName, filterValue, checked) ==
  LET d == DecodeFieldFilters(url.field_filters)
  IN IF d.exc THEN [exc |-> TRUE, url |-> url]
     ELSE [exc |-> FALSE,
           url |-> Encode(url, ToggleValue(d.v, filterName, filterValue, checked))]

\* a price apply that writes the bounds as strings
PriceValuesAsStrings(fieldFilters, fromValue, toValue) ==
  LET f == IF ~fromValue.nan
           THEN SetProp(fieldFilters, "price_from", Arr(<<Str(NumberToString(fromValue.n))>>))
           ELSE DeleteProp(fieldFilters, "price_from")
  IN IF ~toValue.nan
     THEN SetProp(f, "price_to", Arr(<<Str(NumberToString(toValue.n))>>))
     ELSE DeleteProp(f, "price_to")

\* applyPriceFilter: price_from and price_to written into the mapping
PriceValues(fieldFilters, fromValue, toValue) ==
  LET f == IF ~fromValue.nan
           THEN SetProp(fieldFilters, "price_from", Arr(<<Num(fromValue.n)>>))
           ELSE DeleteProp(fieldFilters, "price_from")
  IN IF ~toValue.nan
     THEN SetProp(f, "price_to", Arr(<<Num(toValue.n)>>))
     ELSE DeleteProp(f, "price_to")

\* applyPriceFilter(fromValue, toValue): [exc, url]
ApplyPriceFilter(url, fromValue, toValue) ==
  LET d == DecodeFieldFilters(url.field_filters)
  IN IF d.exc THEN [exc |-> TRUE, url |-> url]
     ELSE [exc |-> FALSE, url |-> Encode(url, PriceValues(d.v, fromValue, toValue))]

\* the pre-check read of renderOffersFilter / renderBadgesFilter:
\* activeOffers / activeBadges, [exc, v]
ActiveValues(rawFieldFilters, key) ==
  IF ~rawFieldFilters.has \/ rawFieldFilters.val = <<>>
  THEN [exc |-> FALSE, v |-> <<>>]
  ELSE LET r == JSONParse(rawFieldFilters.val)
           existing == IF Truthy(r.v) THEN r.v ELSE EmptyMapping
           cur == GetProp(existing, key)
       IN Try(IF r.exc THEN [exc |-> TRUE, v |-> <<>>]
              ELSE [exc |-> FALSE,
                    v |-> IF Truthy(cur) /\ cur.t = "arr" THEN MapString(cur.items) ELSE <<>>],
              <<>>)

\* value.length && value[0] of the pre-fill read: the first element of an
\* array, the first character of a string
HasLength(value) ==
  \/ value.t = "arr" /\ Len(value.items) > 0
  \/ value.t = "str" /\ Len(value.s) > 0
  \/ value.t = "obj" /\ Truthy(GetProp(value, "length"))

First(value) ==
  CASE value.t = "arr" -> value.items[1]
    [] value.t = "str" -> Str(<<value.s[1]>>)
    [] OTHER -> GetProp(value, "0")

\* activeFrom / activeTo of the pre-fill read for one of the keys (NaN
\* stands for null too: both fall back to the default)
ActiveBound(existing, key) ==
  LET cur == GetProp(existing, key)
  IN IF Truthy(cur) /\ HasLength(cur) THEN ParseFloat(First(cur)) ELSE NaN

\* the pre-fill read of renderPriceRanges: [exc, v], v = [from, to]; a
\* property read on null throws inside the try
ActivePrice(rawFieldFilters) ==
  LET none == [from |-> NaN, to |-> NaN]
  IN IF ~rawFieldFilters.has \/ rawFieldFilters.val = <<>>
     THEN [exc |-> FALSE, v |-> none]
     ELSE LET r == JSONParse(rawFieldFilters.val)
          IN Try(IF r.exc \/ r.v.t = "null" THEN [exc |-> TRUE, v |-> none]
                 ELSE [exc |-> FALSE, v |-> [from |-> ActiveBound(r.v, "price_from"),
                                             to |-> ActiveBound(r.v, "price_to")]],
                 none)

Thousand == 1000
DefaultMaxPrice == 100000

RECURSIVE MaxOf(_)
MaxOf(S) ==
  LET x == CHOOSE y \in S : TRUE
  IN IF S = {x} THEN x ELSE LET m == MaxOf(S \ {x}) IN IF x > m THEN x ELSE m

\* Math.ceil(a / b) for b > 0
Ceil(a, b) == 0 - ((0 - a) \div b)

\* maxPrice of renderPriceRanges: ranges is the list of the to_amount values
MaxPriceOf(ranges) ==
  LET toValues == {ranges[i].n : i \in {j \in 1..Len(ranges) : ranges[j].t = "num"}}
  IN IF toValues = {} THEN DefaultMaxPrice ELSE Ceil(MaxOf(toValues), Thousand) * Thousand

\* the value a range input (min 0, max maxP, step 1) takes when set to v
RangeValue(v, maxP) ==
  IF v < 0 \/ maxP < 0 THEN 0 ELSE IF v > maxP THEN maxP ELSE v

\* an enforcement that does not swap
EnforceOrderWithoutSwap(minS, maxS) ==
  [minSlider |-> minS, maxSlider |-> maxS,
   minInputBox |-> Number(minS), maxInputBox |-> Number(maxS)]

\* enforceOrderContinuous on slider values minS, maxS: the four values after
EnforceOrderContinuous(minS, maxS) ==
  LET minV == IF minS > maxS THEN maxS ELSE minS
      maxV == IF minS > maxS THEN minS ELSE maxS
  IN [minSlider |-> minV, maxSlider |-> maxV,
      minInputBox |-> Number(minV), maxInputBox |-> Number(maxV)]

\* the character strings of the facet codes
BadgeNew == <<"N", "E", "W">>
BadgeSale == <<"S", "A", "L", "E">>
OfferFlat10 == <<"F", "L", "A", "T", "1", "0">>

\* get_filter_facets responses: none, no facets configured, facets configured
FacetResponses ==
  { [message |-> FALSE, price_ranges |-> <<>>, offers |-> <<>>, badges |-> <<>>],
    [message |-> TRUE, price_ranges |-> <<>>, offers |-> <<>>, badges |-> <<>>],
    [message |-> TRUE, price_ranges |-> <<Num(500), Null, Num(1500)>>,
     offers |-> <<OfferFlat10>>, badges |-> <<BadgeNew, BadgeSale>>] }

\* the URLs the page is opened with
Badges(items) == <<KeyTok("badges"), Tok(":"), Tok("[")>> \o items \o <<Tok("]")>>

InitialFieldFilters ==
  { Absent,
    Param(<<>>),
    Param(<<Tok("{"), KeyTok("badges")>>),
    Param(<<Tok("null")>>),
    Param(<<NumTok(0)>>),
    Param(<<NumTok(1)>>),
    Param(<<StrTok(BadgeNew)>>),
    Param(<<Tok("["), Tok("]")>>),
    Param(<<Tok("{"), Tok("}")>>),
    Param(<<Tok("{")>> \o Badges(<<StrTok(BadgeNew)>>) \o <<Tok("}")>>),
    Param(<<Tok("{")>> \o Badges(<<>>) \o <<Tok("}")>>),
    Param(<<Tok("{")>> \o Badges(<<StrTok(BadgeNew), Tok(","), StrTok(BadgeNew)>>) \o <<Tok("}")>>),
    Param(<<Tok("{"), KeyTok("badges"), Tok(":"), StrTok(BadgeNew), Tok("}")>>),
    Param(<<Tok("{"), KeyTok("price_from"), Tok(":"), Tok("["), StrTok(<<"1", "5", "0", "0">>),
            Tok("]"), Tok(","), KeyTok("price_to"), Tok(":"), Tok("["), NumTok(500), Tok("]"),
            Tok("}")>>),
    Param(<<Tok("{"), KeyTok("brand"), Tok(":"), Tok("["), NumTok(7), Tok("]"), Tok("}")>>) }

InitialUrls ==
  { [field_filters |-> f, from_filters |-> Absent, start |-> st,
     search |-> Param(<<"t", "e", "a">>)] :
      f \in InitialFieldFilters, st \in {Param(<<"2", "0">>)} }

\* where the user drops a slider handle, and what the user types into a box
Positions(maxP) == {0, 1500, maxP}
BoxInputs == {NaN, Number(0 - 1), Number(2500)}

\* ----------------------------------------------------------------- Init
InitListing(configs) ==
  /\ scripts \in configs
  /\ started = {}
  /\ listing \in BOOLEAN
  /\ cards = <<>>
  /\ payload = [k \in Kinds |-> IF k \in scripts THEN BackendData ELSE {}]
  /\ timers = [k \in Kinds |-> 0]
  /\ inflight = [k \in Kinds |-> EmptyBag]
  /\ observing = FALSE
  /\ debounce = [pending |-> 0, handle |-> "null", events |-> 0]
  /\ lastFetch = [k \in Kinds |-> <<>>]
  /\ guest \in (IF "qty" \in scripts THEN BOOLEAN ELSE {FALSE})
  /\ guestClicked = FALSE
  /\ qtyOn = FALSE
  /\ renderTimers = <<>>
  /\ cartReqs = <<>>
  /\ cartQty = -1
  /\ quiet = FALSE

NoUrl == [field_filters |-> Absent, from_filters |-> Absent, start |-> Absent, search |-> Absent]
NoNav == [has |-> FALSE, url |-> NoUrl]

\* the facet widgets before initCatalogFacets has run
FacetsInit(urls) ==
  /\ href \in urls
  /\ nav = NoNav
  /\ navs = 0
  /\ facetsCall = "none"
  /\ widgets = {}
  /\ focus = "none"
  /\ checkedBoxes = {}
  /\ maxPrice = 0
  /\ minSlider = 0
  /\ maxSlider = 0
  /\ minInputBox = NaN
  /\ maxInputBox = NaN
  /\ thrown = FALSE

InitPage(configs) == InitListing(configs) /\ FacetsInit({NoUrl})

Init == InitPage(AnnConfigs)

\* ------------------------------------------------- the external renderer
CreateListing ==
  /\ ~quiet
  /\ ~listing
  /\ listing' = TRUE
  /\ UNCHANGED <<started, cards, pageVars, annVars, qtyVars>>

\* a card is added; both MutationObservers see it
AddCard ==
  /\ ~quiet
  /\ listing
  /\ Len(cards) < MaxCards
  /\ \E code \in ListedCodes(scripts), t \in Templates :
       LET added == Append(cards, [code |-> code, nodes |-> t])
       IN cards' = IF qtyOn THEN SyncExistingInCartCards(added, {Len(added)}) ELSE added
  /\ Observed(cards')
  /\ UNCHANGED <<started, listing, pageVars, timers, inflight, observing, lastFetch, qtyVars>>

RemoveCard ==
  /\ ~quiet
  /\ \E i \in 1..Len(cards) :
       /\ cards' = RemoveAt(cards, i)
       /\ renderTimers' = [j \in 1..Len(renderTimers) |-> Reindex(renderTimers[j], i)]
       /\ cartReqs' = [j \in 1..Len(cartReqs) |->
                         [cartReqs[j] EXCEPT !.card = Reindex(@, i)]]
  /\ Observed(cards')
  /\ UNCHANGED <<started, listing, pageVars, timers, inflight, observing, lastFetch, qtyOn, cartQty>>

\* the core marks a card as in the cart: its cart indicator becomes visible
ShowIndicator ==
  /\ ~quiet
  /\ \E i \in 1..Len(cards) :
       LET el == QuerySelector(cards[i].nodes, {"indicator"})
       IN /\ el # 0
          /\ cards[i].nodes[el].h
          /\ cards' = [cards EXCEPT ![i].nodes[el].h = FALSE]
  /\ UNCHANGED <<started, listing, pageVars, annVars, qtyVars>>

\* the core re-renders the in-cart markup of a card: the element holding the
\* cart indicator is replaced by one whose indicator is visible; both
\* MutationObservers see the added node, and the quantity script's calls
\* syncExistingInCartCards on it (one visible indicator in its scope)
RerenderInCart ==
  /\ ~quiet
  /\ \E i \in 1..Len(cards) :
       LET el == QuerySelector(cards[i].nodes, {"indicator"})
           shown == [cards[i] EXCEPT !.nodes[el].h = FALSE]
       IN /\ el # 0
          /\ cards' = [cards EXCEPT ![i] = IF qtyOn THEN RenderQtyControls(shown, 1) ELSE shown]
  /\ debounce' = IF observing THEN ObserverCallback(debounce) ELSE debounce
  /\ UNCHANGED <<started, listing, pageVars, timers, inflight, observing, lastFetch, qtyVars>>

\* the renderer finishes: no re-render follows
RendererStops ==
  /\ ~quiet
  /\ quiet' = TRUE
  /\ UNCHANGED <<scripts, payload, guest, guestClicked, facetVars, started, listing, cards, annVars, qtyVars>>

\* ------------------------------------------------------- the coordinators
\* frappe.ready(function () {...}) of an annotation script
Ready ==
  \E k \in (scripts \cap Kinds) \ started :
    /\ started' = started \cup {k}
    /\ timers' = [timers EXCEPT ![k] = InitialTimers(k)]
    /\ observing' = IF k = "badges" THEN listing ELSE observing
    /\ UNCHANGED <<listing, cards, pageVars, inflight, debounce, lastFetch, qtyVars>>

\* inject*(): harvest, then at most one frappe.call
Sync(k) ==
  LET reqs == Requests(k, listing, cards)
  IN /\ inflight' = [inflight EXCEPT ![k] = @ (+) SeqToBag(reqs)]
     /\ lastFetch' = [lastFetch EXCEPT ![k] = IF reqs = <<>> THEN @ ELSE reqs[Len(reqs)]]

\* one of the initial timeouts expires and runs inject*()
TimerFire ==
  \E k \in Kinds :
    /\ timers[k] > 0
    /\ BagCardinality(inflight[k]) < MaxInflight
    /\ timers' = [timers EXCEPT ![k] = @ - 1]
    /\ Sync(k)
    /\ UNCHANGED <<started, listing, cards, pageVars, observing, debounce, qtyVars>>

\* the debounce timeout expires and runs injectBadges()
DebounceFire ==
  /\ debounce.pending > 0
  /\ BagCardinality(inflight["badges"]) < MaxInflight
  /\ debounce' = [pending |-> debounce.pending - 1,
                  handle |-> IF debounce.pending = 1 /\ debounce.handle = "live"
                             THEN "fired" ELSE debounce.handle,
                  events |-> 0]
  /\ Sync("badges")
  /\ UNCHANGED <<started, listing, cards, pageVars, timers, observing, qtyVars>>

\* a request is answered
RespondWith(outcome) ==
  \E k \in Kinds :
    \E itemCodes \in BagToSet(inflight[k]) :
      /\ inflight' = [inflight EXCEPT ![k] = @ (-) SetToBag({itemCodes})]
      /\ cards' = Deliver(k, cards, itemCodes, outcome)
      /\ Observed(cards')
      /\ UNCHANGED <<started, listing, pageVars, timers, observing, lastFetch, qtyVars>>

RespondOk == RespondWith("ok")

RespondNoMessage == RespondWith("nomsg")

RespondFail == RespondWith("fail")

\* -------------------------------------------------- the quantity script
\* frappe.ready(function () {...}) of the quantity script
QtyReady ==
  /\ "qty" \in scripts \ started
  /\ started' = started \cup {"qty"}
  /\ qtyOn' = listing
  /\ cards' = IF listing THEN SyncExistingInCartCards(cards, 1..Len(cards)) ELSE cards
  /\ Observed(cards')
  /\ UNCHANGED <<listing, pageVars, timers, inflight, observing, lastFetch, renderTimers, cartReqs,
                 cartQty>>

\* a click handler without the guest check
AddToCartClickAsUser ==
  /\ qtyOn
  /\ Len(renderTimers) < MaxRenderTimers
  /\ \E i \in 1..Len(cards) :
       LET btn == QuerySelector(cards[i].nodes, {"addbtn"})
       IN /\ btn # 0
          /\ ~cards[i].nodes[btn].h
          /\ cards' = [cards EXCEPT ![i].nodes[btn].h = TRUE]
          /\ renderTimers' = Append(renderTimers, i)
  /\ cartQty' = IF guest THEN cartQty ELSE 1
  /\ guestClicked' = (guestClicked \/ guest)
  /\ UNCHANGED <<started, listing, scripts, payload, guest, quiet, facetVars, annVars, qtyOn, cartReqs>>

\* a click on a visible Add to Cart button of card i (the core's own handler
\* puts the item into the cart of a logged-in user)
AddToCartClick ==
  /\ qtyOn
  /\ Len(renderTimers) < MaxRenderTimers
  /\ \E i \in 1..Len(cards) :
       LET btn == QuerySelector(cards[i].nodes, {"addbtn"})
       IN /\ btn # 0
          /\ ~cards[i].nodes[btn].h
          /\ IF guest
             THEN UNCHANGED <<cards, renderTimers>>
             ELSE /\ cards' = [cards EXCEPT ![i].nodes[btn].h = TRUE]
                  /\ renderTimers' = Append(renderTimers, i)
  /\ cartQty' = IF guest THEN cartQty ELSE 1
  /\ guestClicked' = (guestClicked \/ guest)
  /\ UNCHANGED <<started, listing, scripts, payload, guest, quiet, facetVars, annVars, qtyOn, cartReqs>>

\* the 200 ms timeout expires: renderQtyControls(card, itemCode, 1)
RenderTimerFire ==
  /\ renderTimers # <<>>
  /\ LET c == Head(renderTimers)
     IN cards' = IF c = 0 THEN cards ELSE [cards EXCEPT ![c] = RenderQtyControls(@, 1)]
  /\ renderTimers' = Tail(renderTimers)
  /\ Observed(cards')
  /\ UNCHANGED <<started, listing, pageVars, timers, inflight, observing, lastFetch, qtyOn, cartReqs,
                 cartQty>>

\* a click on + or - of a visible stepper of card i
StepClick ==
  /\ qtyOn
  /\ Len(cartReqs) < MaxCartReqs
  /\ \E i \in 1..Len(cards), dir \in {"up", "dwn"} :
       LET wrapper == QuerySelector(cards[i].nodes, {"qty"})
       IN /\ wrapper # 0
          /\ ~cards[i].nodes[wrapper].h
          /\ StepQty(cards[i].nodes[wrapper].v, dir) <= MaxQty
          /\ cartReqs' = Append(cartReqs,
               [card |-> i, qty |-> ClampQty(StepQty(cards[i].nodes[wrapper].v, dir)),
                dir |-> dir, current |-> Current(cards[i].nodes[wrapper].v),
                st |-> "sent"])
  /\ UNCHANGED <<started, listing, cards, pageVars, annVars, qtyOn, renderTimers, cartQty>>

\* the backend handles the update_cart requests in the order sent: it sets
\* the quantity, or rejects the request (r.exc)
UpdateCart ==
  /\ \E j \in 1..Len(cartReqs), exc \in BOOLEAN :
       /\ cartReqs[j].st = "sent"
       /\ \A h \in 1..(j - 1) : cartReqs[h].st # "sent"
       /\ cartReqs' = [cartReqs EXCEPT ![j].st = IF exc THEN "exc" ELSE "ok"]
       /\ cartQty' = IF exc THEN cartQty ELSE cartReqs[j].qty
  /\ UNCHANGED <<started, listing, cards, pageVars, annVars, qtyOn, renderTimers>>

\* the response to an update_cart request arrives (in any order)
CartRespond ==
  /\ \E j \in 1..Len(cartReqs) :
       LET req == cartReqs[j]
       IN /\ req.st # "sent"
          /\ cartReqs' = RemoveAt(cartReqs, j)
          /\ cards' = IF req.card = 0 THEN cards
                      ELSE [cards EXCEPT ![req.card] =
                              UpdateQtyCallback(@, req.qty, req.st = "exc")]
  /\ UNCHANGED <<started, listing, pageVars, annVars, qtyOn, renderTimers, cartQty>>

\* ----------------------------------------------------- the facet sidebar
listingVars == <<listing, cards, annVars, qtyVars, scripts, payload, guest, guestClicked, quiet>>

PriceWidget == <<"price", <<>>>>

\* initCatalogFacets: the sidebar exists, get_filter_facets is called
InitCatalogFacets ==
  /\ "facets" \in scripts \ started
  /\ started' = started \cup {"facets"}
  /\ facetsCall' = "sent"
  /\ UNCHANGED <<listingVars, href, nav, navs, widgets, focus, checkedBoxes, maxPrice, minSlider,
                 maxSlider, minInputBox, maxInputBox, thrown>>

\* the callback of get_filter_facets: renderPriceRanges, renderOffersFilter,
\* renderBadgesFilter
FacetsCallback ==
  /\ facetsCall = "sent"
  /\ facetsCall' = "answered"
  /\ focus' \in {"boxes", "price"}
  /\ \E r \in FacetResponses :
       IF ~r.message
       THEN UNCHANGED <<widgets, checkedBoxes, maxPrice, minSlider, maxSlider, minInputBox,
                        maxInputBox, thrown>>
       ELSE LET maxP == MaxPriceOf(r.price_ranges)
                price == ActivePrice(href.field_filters)
                activeOffers == ActiveValues(href.field_filters, "offers_title")
                activeBadges == ActiveValues(href.field_filters, "badges")
                initialMin == IF ~price.v.from.nan /\ price.v.from.n >= 0
                              THEN price.v.from.n ELSE 0
                initialMax == IF ~price.v.to.nan /\ price.v.to.n > 0
                              THEN price.v.to.n ELSE maxP
            IN /\ maxPrice' = maxP
               /\ minSlider' = RangeValue(initialMin, maxP)
               /\ maxSlider' = RangeValue(initialMax, maxP)
               /\ minInputBox' = Number(initialMin)
               /\ maxInputBox' = Number(initialMax)
               /\ widgets' = {PriceWidget}
                    \cup {<<"offers_title", r.offers[i]>> : i \in 1..Len(r.offers)}
                    \cup {<<"badges", r.badges[i]>> : i \in 1..Len(r.badges)}
               /\ checkedBoxes' =
                    {<<"offers_title", r.offers[i]>> :
                       i \in {j \in 1..Len(r.offers) : Includes(activeOffers.v, r.offers[j])}}
                    \cup {<<"badges", r.badges[i]>> :
                       i \in {j \in 1..Len(r.badges) : Includes(activeBadges.v, r.badges[j])}}
               /\ thrown' = (thrown \/ price.exc \/ activeOffers.exc \/ activeBadges.exc)
  /\ UNCHANGED <<listingVars, started, href, nav, navs>>

\* the change handler of an offers or badges checkbox
CheckboxChange ==
  /\ focus = "boxes"
  /\ \E box \in widgets \ {PriceWidget} :
       LET checked == box \notin checkedBoxes
           r == ApplyFieldFilterChange(href, box[1], box[2], checked)
       IN /\ checkedBoxes' = IF checked THEN checkedBoxes \cup {box} ELSE checkedBoxes \ {box}
          /\ nav' = IF r.exc THEN nav ELSE [has |-> TRUE, url |-> r.url]
          /\ thrown' = (thrown \/ r.exc)
  /\ UNCHANGED <<listingVars, started, href, navs, facetsCall, widgets, focus, maxPrice, minSlider,
                 maxSlider, minInputBox, maxInputBox>>

\* a slider handler that applies the price filter on every move
SliderInputApplying ==
  /\ focus = "price"
  /\ PriceWidget \in widgets
  /\ \E which \in {"min", "max"}, pos \in Positions(maxPrice) :
       LET e == EnforceOrderContinuous(IF which = "min" THEN pos ELSE minSlider,
                                       IF which = "max" THEN pos ELSE maxSlider)
           r == ApplyPriceFilter(href, Number(e.minSlider), Number(e.maxSlider))
       IN /\ minSlider' = e.minSlider
          /\ maxSlider' = e.maxSlider
          /\ minInputBox' = e.minInputBox
          /\ maxInputBox' = e.maxInputBox
          /\ nav' = [has |-> TRUE, url |-> r.url]
  /\ UNCHANGED <<listingVars, started, href, navs, facetsCall, widgets, focus, checkedBoxes,
                 maxPrice, thrown>>

\* the input handler of a slider handle the user moved to pos
SliderInput ==
  /\ focus = "price"
  /\ PriceWidget \in widgets
  /\ \E which \in {"min", "max"}, pos \in Positions(maxPrice) :
       LET e == EnforceOrderContinuous(IF which = "min" THEN pos ELSE minSlider,
                                       IF which = "max" THEN pos ELSE maxSlider)
       IN /\ minSlider' = e.minSlider
          /\ maxSlider' = e.maxSlider
          /\ minInputBox' = e.minInputBox
          /\ maxInputBox' = e.maxInputBox
  /\ UNCHANGED <<listingVars, started, href, nav, navs, facetsCall, widgets, focus, checkedBoxes,
                 maxPrice, thrown>>

\* the change handler of a numeric input the user set to v
InputChange ==
  /\ focus = "price"
  /\ PriceWidget \in widgets
  /\ \E which \in {"min", "max"}, v \in BoxInputs :
       IF v.nan
       THEN /\ minInputBox' = IF which = "min" THEN v ELSE minInputBox
            /\ maxInputBox' = IF which = "max" THEN v ELSE maxInputBox
            /\ UNCHANGED <<minSlider, maxSlider>>
       ELSE LET e == EnforceOrderContinuous(
                       IF which = "min" THEN RangeValue(v.n, maxPrice) ELSE minSlider,
                       IF which = "max" THEN RangeValue(v.n, maxPrice) ELSE maxSlider)
            IN /\ minSlider' = e.minSlider
               /\ maxSlider' = e.maxSlider
               /\ minInputBox' = e.minInputBox
               /\ maxInputBox' = e.maxInputBox
  /\ UNCHANGED <<listingVars, started, href, nav, navs, facetsCall, widgets, focus, checkedBoxes,
                 maxPrice, thrown>>

\* the click handler of the Apply button
ApplyClick ==
  /\ focus = "price"
  /\ PriceWidget \in widgets
  /\ LET r == ApplyPriceFilter(href, Number(minSlider), Number(maxSlider))
     IN /\ nav' = IF r.exc THEN nav ELSE [has |-> TRUE, url |-> r.url]
        /\ thrown' = (thrown \/ r.exc)
  /\ UNCHANGED <<listingVars, started, href, navs, facetsCall, widgets, focus, checkedBoxes, maxPrice,
                 minSlider, maxSlider, minInputBox, maxInputBox>>

\* the navigation commits: the page is loaded again from the new URL
CommitNavigation ==
  /\ nav.has
  /\ navs < MaxNavs
  /\ href' = nav.url
  /\ nav' = NoNav
  /\ navs' = navs + 1
  /\ started' = {}
  /\ facetsCall' = "none"
  /\ widgets' = {}
  /\ focus' = "none"
  /\ checkedBoxes' = {}
  /\ maxPrice' = 0
  /\ minSlider' = 0
  /\ maxSlider' = 0
  /\ minInputBox' = NaN
  /\ maxInputBox' = NaN
  /\ UNCHANGED <<listingVars, thrown>>

Renderer ==
  \/ CreateListing
  \/ AddCard
  \/ RemoveCard

\* the page with one annotation script
Next ==
  \/ Renderer
  \/ Ready
  \/ TimerFire
  \/ DebounceFire
  \/ RespondOk
  \/ RespondNoMessage
  \/ RespondFail

Spec == Init /\ [][Next]_vars

\* every request is answered with the backend's mapping, and the browser
\* runs every ready callback, expired timer and response callback
OkNext ==
  \/ Renderer
  \/ RendererStops
  \/ Ready
  \/ TimerFire
  \/ DebounceFire
  \/ RespondOk

\* the tasks of the page's event loop
ScriptTask == Ready \/ TimerFire \/ DebounceFire \/ RespondOk

\* ENABLED <<ScriptTask>>_vars, written out
ScriptTaskEnabled ==
  \/ (scripts \cap Kinds) \ started # {}
  \/ \E k \in Kinds : timers[k] > 0 /\ BagCardinality(inflight[k]) < MaxInflight
  \/ debounce.pending > 0 /\ BagCardinality(inflight["badges"]) < MaxInflight
  \/ \E k \in Kinds : inflight[k] # EmptyBag

\* the event loop runs a task that stays ready (weak fairness of ScriptTask,
\* with its enabling condition written out), and the renderer's passes end
FairSpec ==
  /\ Init /\ [][OkNext]_vars
  /\ ([]<>(~ScriptTaskEnabled) \/ []<><<ScriptTask>>_vars)
  /\ WF_vars(RendererStops)

\* the enabling condition is the one TLA+ defines
EnabledOk == ScriptTaskEnabled <=> ENABLED <<ScriptTask>>_vars

\* the page with the three annotation scripts
AllConfigs == {Kinds}

AllInit == InitPage(AllConfigs)

\* the three coordinators on a listing the renderer fills, fetches succeeding
AllNext ==
  \/ CreateListing
  \/ AddCard
  \/ Ready
  \/ TimerFire
  \/ DebounceFire
  \/ RespondOk

AllSpec == AllInit /\ [][AllNext]_vars

\* the page with the quantity script
QtyInit == InitPage(QtyConfigs)

QtyNext ==
  \/ Renderer
  \/ ShowIndicator
  \/ QtyReady
  \/ AddToCartClick
  \/ RenderTimerFire
  \/ StepClick
  \/ UpdateCart
  \/ CartRespond

QtySpec == QtyInit /\ [][QtyNext]_vars

\* the page with the quantity script and a core that re-renders the in-cart
\* markup of cards in place
SignalNext == QtyNext \/ RerenderInCart

SignalSpec == QtyInit /\ [][SignalNext]_vars

\* the page with the badge script and the quantity script, on a listing the
\* renderer fills and then leaves alone
LoopConfigs == {{"badges", "qty"}}

LoopInit == InitPage(LoopConfigs)

\* the steps the two scripts take by themselves: ready callbacks, expired
\* timeouts, response callbacks
LoopTask ==
  \/ Ready
  \/ QtyReady
  \/ TimerFire
  \/ DebounceFire
  \/ RespondOk
  \/ RespondNoMessage
  \/ RespondFail
  \/ RenderTimerFire

LoopNext ==
  \/ Renderer
  \/ ShowIndicator
  \/ RendererStops
  \/ AddToCartClick
  \/ LoopTask

LoopSpec == LoopInit /\ [][LoopNext]_vars

\* the page with the facet sidebar
FacetConfigs == {{"facets"}}

FacetInit == InitListing(FacetConfigs) /\ listing /\ FacetsInit(InitialUrls)

FacetNext ==
  \/ InitCatalogFacets
  \/ FacetsCallback
  \/ CheckboxChange
  \/ SliderInput
  \/ InputChange
  \/ ApplyClick
  \/ CommitNavigation

FacetSpec == FacetInit /\ [][FacetNext]_vars

\* the page with any one of the scripts
PageInit == InitPage(PageConfigs)

PageNext == Next \/ QtyNext

PageSpec == PageInit /\ [][PageNext]_vars

\* ================================================================ claims
Range(s) == {s[j] : j \in 1..Len(s)}

ActiveKinds == scripts \cap Kinds

\* the identifiers present in the listing
PresentCodes(d) == {d[ci].code : ci \in Range(ItemCodeEls(d))}

\* a step in which coordinator k processes the successful response to itemCodes
SuccessStep(k, itemCodes) ==
  /\ BagIn(itemCodes, inflight[k])
  /\ inflight' = [inflight EXCEPT ![k] = @ (-) SetToBag({itemCodes})]
  /\ cards' = Deliver(k, cards, itemCodes, "ok")

\* a step in which a trigger (initial timeout or debounce timeout) runs sync of k
TriggerStep(k) ==
  \/ timers'[k] = timers[k] - 1
  \/ k = "badges" /\ debounce'.pending = debounce.pending - 1

\* the anchor the overlay of kind k is inserted after (badges fall back to the top)
HasAnchor(k, card) == k = "badges" \/ QuerySelector(card.nodes, {"price"}) # 0

\* C1: in every reachable state every card holds at most one overlay node of
\* each annotation kind, whatever the order of triggers, re-renders and
\* responses (overlapping passes of one coordinator included).
C1_AtMostOneOverlay ==
  \A i \in 1..Len(cards) : \A k \in Kinds :
    CountKind(cards[i].nodes, MarkerOf(k)) <= 1

\* an annotated card while two more passes of the same coordinator are in flight
C1_Witness ==
  \E i \in 1..Len(cards) :
    /\ CountKind(cards[i].nodes, "badge") = 1
    /\ BagCardinality(inflight["badges"]) = 2
    /\ \A ic \in BagToSet(inflight["badges"]) : cards[i].code \in Range(ic)

\* the listing after one sync of k, run to completion with a successful fetch
SyncOnce(k, d) ==
  LET reqs == Requests(k, listing, d)
  IN IF reqs = <<>> THEN d ELSE Callback(k, d, reqs[1], ResponseOk(k))

\* C2: sync is idempotent: from every reachable listing, a second sync run
\* right after a completed first one (no renderer change in between) leaves
\* the DOM exactly as the first sync left it.
C2_Idempotent ==
  \A k \in ActiveKinds : SyncOnce(k, SyncOnce(k, cards)) = SyncOnce(k, cards)

\* a listing on which the first sync injects an overlay
C2_Witness ==
  \E k \in ActiveKinds :
    /\ SyncOnce(k, cards) # cards
    /\ \E i \in 1..Len(cards) : HasOverlay(cards[i].nodes, MarkerOf(k))

\* the identifier appears on several cards of the listing
OnSeveralCards(d, code) == Cardinality({i \in 1..Len(d) : d[i].code = code}) > 1

\* C3 (as stated): after a successful response, every card instance of an
\* identifier that is on several cards and has a non-empty payload carries
\* exactly one overlay of the kind.
C3_Original ==
  [][\A k \in Kinds : \A ic \in BagToSet(inflight[k]) :
       SuccessStep(k, ic) =>
         \A i \in 1..Len(cards') :
           (/\ cards'[i].code \in Range(ic)
            /\ HasPayload(payload[k], cards'[i].code)
            /\ OnSeveralCards(cards', cards'[i].code))
             => CountKind(cards'[i].nodes, MarkerOf(k)) = 1]_vars

\* C3 (amended): after a successful response, every card instance of an
\* identifier that is on several cards and has a non-empty payload, and that
\* contains the anchor (the price element for offers and discount; any card
\* for badges) carries exactly one overlay of the kind.
C3_EveryAnchoredInstance ==
  [][\A k \in Kinds : \A ic \in BagToSet(inflight[k]) :
       SuccessStep(k, ic) =>
         \A i \in 1..Len(cards') :
           (/\ cards'[i].code \in Range(ic)
            /\ HasPayload(payload[k], cards'[i].code)
            /\ OnSeveralCards(cards', cards'[i].code)
            /\ HasAnchor(k, cards'[i]))
             => CountKind(cards'[i].nodes, MarkerOf(k)) = 1]_vars

\* two cards with the same identifier, each with its overlay
C3_Witness ==
  \E k \in ActiveKinds : \E i, j \in 1..Len(cards) :
    /\ i # j
    /\ cards[i].code = cards[j].code
    /\ CountKind(cards[i].nodes, MarkerOf(k)) = 1
    /\ CountKind(cards[j].nodes, MarkerOf(k)) = 1

\* C4: a sync invocation issues at most one request: none when the container
\* is absent or no identifier is harvested, otherwise exactly one, whose
\* item_codes holds every identifier present in the listing exactly once.
C4_OneBatchedRequest ==
  [][\A k \in Kinds :
       TriggerStep(k) =>
         LET new == inflight'[k] (-) inflight[k]
         IN /\ inflight[k] \sqsubseteq inflight'[k]
            /\ BagCardinality(new) <= 1
            /\ (BagCardinality(new) = 0) <=> (~listing \/ PresentCodes(cards) = {})
            /\ \A ic \in BagToSet(new) :
                 /\ Range(ic) = PresentCodes(cards)
                 /\ Len(ic) = Cardinality(PresentCodes(cards))
            /\ \A other \in Kinds \ {k} : inflight'[other] = inflight[other]]_vars

\* a request for one identifier that two cards (several elements) carry
C4_Witness ==
  \E k \in ActiveKinds : \E ic \in BagToSet(inflight[k]) :
    /\ Len(ic) = 1
    /\ Len(cards) = 2
    /\ cards[1].code = ic[1] /\ cards[2].code = ic[1]
    /\ Len(ItemCodeEls(cards)) > 2

\* C5 (as stated): when the identifiers in the listing are the same as at the
\* coordinator's previous fetch, a further trigger issues no new request.
C5_Original ==
  [][\A k \in Kinds :
       (/\ TriggerStep(k)
        /\ lastFetch[k] # <<>>
        /\ Range(lastFetch[k]) = PresentCodes(cards))
         => inflight'[k] = inflight[k]]_vars

\* C5 (amended): every trigger that finds identifiers in the listing issues
\* one new request for the whole harvested set, also when that set is the
\* same as at the coordinator's previous fetch (no memo of fetched sets).
C5_RefetchOnEveryTrigger ==
  [][\A k \in Kinds :
       (TriggerStep(k) /\ listing /\ PresentCodes(cards) # {})
         => /\ lastFetch'[k] = ItemCodes(cards)
            /\ CopiesIn(ItemCodes(cards), inflight'[k])
                 = CopiesIn(ItemCodes(cards), inflight[k]) + 1]_vars

\* two unanswered requests of one coordinator for the same identifier list
C5_Witness ==
  \E k \in ActiveKinds :
    /\ lastFetch[k] # <<>>
    /\ CopiesIn(lastFetch[k], inflight[k]) = 2
    /\ lastFetch[k] = ItemCodes(cards)

\* a step in which a request of k is answered
ResponseStep(k) ==
  \E ic \in BagToSet(inflight[k]) :
    inflight' = [inflight EXCEPT ![k] = @ (-) SetToBag({ic})]

\* C6: a failed fetch, or a response without message, is a no-op: the DOM is
\* left as it was, and answering a request starts no request and no timer
\* of the coordinator (a retry needs a later trigger).
C6_FailureIsNoOp ==
  /\ [](\A k \in Kinds : \A ic \in BagToSet(inflight[k]) :
          /\ Deliver(k, cards, ic, "fail") = cards
          /\ Deliver(k, cards, ic, "nomsg") = cards)
  /\ [][\A k \in Kinds :
          ResponseStep(k) =>
            /\ timers' = timers
            /\ lastFetch' = lastFetch
            /\ (cards' = cards => debounce' = debounce)]_vars

\* an unanswered request whose success would inject an overlay
C6_Witness ==
  \E k \in ActiveKinds : \E ic \in BagToSet(inflight[k]) :
    /\ Deliver(k, cards, ic, "ok") # cards
    /\ Deliver(k, cards, ic, "nomsg") = cards

\* a card of an identifier with payload that has no overlay of kind k yet and
\* lacks the anchor of k (price element; title for badges)
Anchorless(k, ic, card) ==
  /\ card.code \in Range(ic)
  /\ HasPayload(payload[k], card.code)
  /\ ~HasOverlay(card.nodes, MarkerOf(k))
  /\ QuerySelector(card.nodes, {IF k = "badges" THEN "title" ELSE "price"}) = 0

\* C7 (as stated): on a successful sync a card without the anchor receives
\* the overlay, appended to the card.
C7_Original ==
  [][\A k \in Kinds : \A ic \in BagToSet(inflight[k]) :
       SuccessStep(k, ic) =>
         \A i \in 1..Len(cards) :
           Anchorless(k, ic, cards[i])
             => cards'[i].nodes = Append(cards[i].nodes, Node(MarkerOf(k)))]_vars

\* C7 (amended): on a successful sync a card without the anchor is left
\* unchanged by the offers and discount coordinators (no overlay), and
\* receives the badge overlay as the first child of the card body.
C7_AnchorMissing ==
  [][\A k \in Kinds : \A ic \in BagToSet(inflight[k]) :
       SuccessStep(k, ic) =>
         \A i \in 1..Len(cards) :
           Anchorless(k, ic, cards[i])
             => cards'[i].nodes = IF k = "badges"
                                  THEN <<Node("badge")>> \o cards[i].nodes
                                  ELSE cards[i].nodes]_vars

\* a card without price whose offers or discount pass has completed without
\* an overlay, or a card without title with the badge as its first child
C7_Witness ==
  \E i \in 1..Len(cards) :
    \/ /\ cards[i].nodes[1].k = "badge"
       /\ QuerySelector(cards[i].nodes, {"title"}) = 0
    \/ \E k \in ActiveKinds \ {"badges"} :
         /\ Anchorless(k, lastFetch[k], cards[i])
         /\ k \in started /\ timers[k] = 0 /\ inflight[k] = EmptyBag
         /\ \E j \in 1..Len(cards) : HasOverlay(cards[j].nodes, MarkerOf(k))

\* C9: mutation-triggered syncs are debounced: at most one debounce timeout
\* is pending at any time; every observed mutation leaves exactly one pending
\* (the previous one cancelled); and the expiry runs one sync for the whole
\* burst, starting at most one request and leaving no debounce timeout.
C9_Debounced ==
  /\ [](/\ debounce.pending <= 1
        /\ (debounce.events > 0) <=> (debounce.pending = 1))
  /\ [][/\ (observing /\ ChildListChanged(cards, cards'))
            => (debounce'.pending = 1 /\ debounce'.handle = "live")
        /\ (debounce'.pending < debounce.pending)
            => /\ debounce'.pending = 0 /\ debounce'.events = 0
               /\ inflight["badges"] \sqsubseteq inflight'["badges"]
               /\ BagCardinality(inflight'["badges"])
                    <= BagCardinality(inflight["badges"]) + 1
               /\ cards' = cards]_vars

\* a burst of at least two mutation events with a single timeout pending
C9_Witness == debounce.events = 2 /\ debounce.pending = 1

\* every card of an identifier with a non-empty payload that contains the
\* anchor of k has the overlay of k
AllAnnotated(k) ==
  \A i \in 1..Len(cards) :
    (/\ cards[i].code \in PresentCodes(cards)
     /\ HasPayload(payload[k], cards[i].code)
     /\ HasAnchor(k, cards[i]))
      => HasOverlay(cards[i].nodes, MarkerOf(k))

\* coordinator k has nothing left to run: no timeout and no request pending
Idle(k) ==
  /\ k \in started
  /\ timers[k] = 0
  /\ inflight[k] = EmptyBag
  /\ k = "badges" => debounce.pending = 0

ExtNodes(nodes) == SelectSeq(nodes, LAMBDA n : n.k \in ExternalKinds)

\* card c2 has the external nodes of c1, in the same order, unchanged but for
\* the hidden class of the add-to-cart button
SameExternal(c1, c2) ==
  /\ c1.code = c2.code
  /\ Len(ExtNodes(c1.nodes)) = Len(ExtNodes(c2.nodes))
  /\ \A j \in 1..Len(ExtNodes(c1.nodes)) :
       LET n1 == ExtNodes(c1.nodes)[j]
           n2 == ExtNodes(c2.nodes)[j]
       IN IF n1.k = "addbtn" THEN n2.k = "addbtn" /\ n2.v = n1.v ELSE n2 = n1

\* C10: the coordinators and the quantity overlay only add: every step of
\* theirs keeps every card, and in every card every externally owned node,
\* in place and in order; the add-to-cart button is only hidden or shown.
\* (A card the renderer adds keeps the template's nodes when the quantity
\* observer renders into it in the same task.)
C10_AdditiveOnly ==
  [][\/ RemoveCard \/ ShowIndicator \/ CreateListing
     \/ /\ AddCard
        /\ SubSeq(cards', 1, Len(cards)) = cards
        /\ \E t \in Templates, code \in Codes :
             SameExternal([code |-> code, nodes |-> t], cards'[Len(cards')])
     \/ /\ Len(cards') = Len(cards)
        /\ \A i \in 1..Len(cards) : SameExternal(cards[i], cards'[i])]_vars

\* a card with a stepper showing 2 and its add-to-cart button hidden, or a
\* card annotated between its external nodes
C10_Witness ==
  \E i \in 1..Len(cards) :
    LET nodes == cards[i].nodes
        w == QuerySelector(nodes, {"qty"})
        b == QuerySelector(nodes, {"addbtn"})
    IN /\ w # 0 /\ b # 0
       /\ nodes[b].h /\ ~nodes[w].h /\ nodes[w].v = 2
       /\ Len(ExtNodes(nodes)) = Len(nodes) - 1

\* the (card, kind) pairs of the overlays in listing d
OverlaySet(d) ==
  {<<i, k>> \in (1..Len(d)) \X Kinds : CountKind(d[i].nodes, MarkerOf(k)) > 0}

\* C11: the coordinators are independent: from every reachable state, two
\* pending responses of different kinds applied in either order give the
\* same set of (card, kind) overlays, which is the union of what each gives
\* alone, with at most one overlay of a kind per card; and a response of one
\* kind leaves the overlays of the other kinds on every card as they were.
C11_Independent ==
  /\ [](\A k1 \in Kinds : \A k2 \in Kinds \ {k1} :
         \A ic1 \in BagToSet(inflight[k1]) : \A ic2 \in BagToSet(inflight[k2]) :
           LET d1 == Deliver(k1, cards, ic1, "ok")
               d2 == Deliver(k2, cards, ic2, "ok")
               d12 == Deliver(k2, d1, ic2, "ok")
               d21 == Deliver(k1, d2, ic1, "ok")
           IN /\ OverlaySet(d12) = OverlaySet(d21)
              /\ OverlaySet(d12) = OverlaySet(d1) \cup OverlaySet(d2)
              /\ \A i \in 1..Len(d12) : \A k \in Kinds :
                   CountKind(d12[i].nodes, MarkerOf(k)) <= 1)
  /\ [][\A k \in Kinds :
          (ResponseStep(k) /\ Len(cards') = Len(cards))
            => \A i \in 1..Len(cards) : \A k2 \in Kinds \ {k} :
                 CountKind(cards'[i].nodes, MarkerOf(k2))
                   = CountKind(cards[i].nodes, MarkerOf(k2))]_vars

\* a card that carries a badge while an offers and a discount response,
\* each of which annotates it, are pending
C11_Witness ==
  \E i \in 1..Len(cards) :
    /\ HasOverlay(cards[i].nodes, "badge")
    /\ ~HasOverlay(cards[i].nodes, "offer")
    /\ ~HasOverlay(cards[i].nodes, "discount")
    /\ \E ic1 \in BagToSet(inflight["offers"]) : \E ic2 \in BagToSet(inflight["discount"]) :
         LET d12 == Deliver("discount", Deliver("offers", cards, ic1, "ok"), ic2, "ok")
         IN HasOverlay(d12[i].nodes, "offer") /\ HasOverlay(d12[i].nodes, "discount")

\* C12: a stale response is harmless: processing a successful response
\* adds and removes no card, and changes only cards that are in the listing
\* at that moment, whose identifier the request named and has a non-empty
\* payload, by the one overlay of the kind; a response all of whose
\* identifiers' cards have been removed changes nothing.
C12_StaleResponse ==
  /\ [](\A k \in Kinds : \A ic \in BagToSet(inflight[k]) :
         (Range(ic) \cap PresentCodes(cards) = {})
           => Deliver(k, cards, ic, "ok") = cards)
  /\ [][\A k \in Kinds : \A ic \in BagToSet(inflight[k]) :
          SuccessStep(k, ic) =>
            /\ Len(cards') = Len(cards)
            /\ \A i \in 1..Len(cards) :
                 /\ cards'[i].code = cards[i].code
                 /\ cards'[i] # cards[i]
                      => /\ cards[i].code \in Range(ic)
                         /\ HasPayload(payload[k], cards[i].code)
                         /\ CountKind(cards[i].nodes, MarkerOf(k)) = 0
                         /\ CountKind(cards'[i].nodes, MarkerOf(k)) = 1
                         /\ Len(cards'[i].nodes) = Len(cards[i].nodes) + 1]_vars

\* a pending request for an identifier with payload whose card the renderer
\* has removed, with another card, not annotated, now in the listing
C12_Witness ==
  \E k \in ActiveKinds : \E ic \in BagToSet(inflight[k]) :
    /\ \E code \in Range(ic) :
         HasPayload(payload[k], code) /\ code \notin PresentCodes(cards)
    /\ cards # <<>>
    /\ \A i \in 1..Len(cards) :
         HasAnchor(k, cards[i]) /\ ~HasOverlay(cards[i].nodes, MarkerOf(k))
    /\ Deliver(k, cards, ic, "ok") = cards

\* the external add-to-cart affordance of the card is visible
AddBtnVisible(card) ==
  \E j \in 1..Len(card.nodes) : card.nodes[j].k = "addbtn" /\ ~card.nodes[j].h

\* the quantity stepper of the card is visible
StepperVisible(card) ==
  \E j \in 1..Len(card.nodes) : card.nodes[j].k = "qty" /\ ~card.nodes[j].h

\* C13 (as stated, the part "never both"): in every reachable state, on no
\* card are the add-to-cart affordance and the quantity stepper both
\* visible. (The part "never neither" fails by design between the click,
\* which hides the affordance, and the render of the stepper 200 ms later.)
C13_NeverBoth ==
  \A i \in 1..Len(cards) : ~(AddBtnVisible(cards[i]) /\ StepperVisible(cards[i]))

\* the quantity the overlay of the card shows (0: Hidden)
Shown(card) ==
  LET wrapper == QuerySelector(card.nodes, {"qty"})
  IN IF wrapper # 0 /\ ~card.nodes[wrapper].h THEN card.nodes[wrapper].v ELSE 0

\* C14 (as stated): once the last pending cart-update response has been
\* processed (no request and no render pending), the overlay of the card
\* the response is for, the only card of the listing, shows the quantity
\* the backend last set: Hidden for 0, Visible(q) for q > 0.
C14_Original ==
  [][\A j \in 1..Len(cartReqs) :
       (/\ cartReqs' = RemoveAt(cartReqs, j)
        /\ cartReqs' = <<>>
        /\ renderTimers' = <<>>
        /\ cartReqs[j].card # 0
        /\ Len(cards') = 1
        /\ cartQty' >= 0)
         => Shown(cards'[cartReqs[j].card]) = cartQty']_vars

\* C15: a cart-update response that carries the error flag changes nothing:
\* every card (visibility of the stepper, displayed quantity, visibility of
\* the add-to-cart affordance) is as before, and no render is scheduled.
C15_ErrorNoTransition ==
  [][\A j \in 1..Len(cartReqs) :
       (cartReqs[j].st = "exc" /\ cartReqs' = RemoveAt(cartReqs, j))
         => /\ cards' = cards
            /\ renderTimers' = renderTimers
            /\ cartQty' = cartQty]_vars

\* a rejected cart-update for quantity 0, and a rejected increment, are
\* about to be answered on a card whose stepper is visible
C15_Witness ==
  \E c \in 1..Len(cards) : \E j, h \in 1..Len(cartReqs) :
    /\ StepperVisible(cards[c])
    /\ cartReqs[j].card = c /\ cartReqs[j].qty = 0 /\ cartReqs[j].st = "exc"
    /\ cartReqs[h].card = c /\ cartReqs[h].st = "exc"
    /\ cartReqs[h].qty = Shown(cards[c]) + 1

\* C16: quantities never go negative: every quantity sent to update_cart
\* is >= 0, every stepper's value is >= 0, and a visible stepper shows a
\* positive quantity.
C16_NonNegative ==
  /\ \A j \in 1..Len(cartReqs) : cartReqs[j].qty >= 0
  /\ \A i \in 1..Len(cards) : \A n \in 1..Len(cards[i].nodes) :
       cards[i].nodes[n].k = "qty"
         => /\ cards[i].nodes[n].v >= 0
            /\ ~cards[i].nodes[n].h => cards[i].nodes[n].v >= 1

\* two decrements from Visible(1) in flight (both for quantity 0) beside a
\* card that a decrement has hidden, its value cleared to 0
C16_Witness ==
  /\ \E c \in 1..Len(cards) : \E j, h \in 1..Len(cartReqs) :
       /\ Shown(cards[c]) = 1
       /\ j # h
       /\ cartReqs[j].card = c /\ cartReqs[j].qty = 0
       /\ cartReqs[h].card = c /\ cartReqs[h].qty = 0
  /\ \E c \in 1..Len(cards) : \E n \in 1..Len(cards[c].nodes) :
       /\ cards[c].nodes[n].k = "qty"
       /\ cards[c].nodes[n].h
       /\ cards[c].nodes[n].v = 0

\* C17 (as stated): when the successful response to a decrement is
\* processed, the card is Hidden if the decrement was from Visible(1) (the
\* request was for quantity 0: stepper hidden, value 0, add-to-cart
\* affordance visible), and its stepper is visible showing q-1 if the
\* decrement was from Visible(q), q > 1; a decrement from Visible(1) sends 0.
C17_Original ==
  /\ [](\A j \in 1..Len(cartReqs) :
         (cartReqs[j].dir = "dwn" /\ cartReqs[j].current = 1) => cartReqs[j].qty = 0)
  /\ [][\A j \in 1..Len(cartReqs) :
          (/\ cartReqs[j].st = "ok"
           /\ cartReqs[j].dir = "dwn"
           /\ cartReqs[j].card # 0
           /\ cartReqs' = RemoveAt(cartReqs, j)
           /\ Len(cards') = Len(cards))
            => LET card == cards'[cartReqs[j].card]
                   wrapper == QuerySelector(card.nodes, {"qty"})
               IN IF cartReqs[j].current = 1
                  THEN /\ card.nodes[wrapper].h
                       /\ card.nodes[wrapper].v = 0
                       /\ AddBtnVisible(card)
                  ELSE /\ StepperVisible(card)
                       /\ Shown(card) = cartReqs[j].current - 1]_vars

C19_Original ==
  [][RerenderInCart =>
       \A i \in 1..Len(cards) :
         StepperVisible(cards[i]) => Shown(cards'[i]) = Shown(cards[i])]_vars

\* C20: in a guest session a click on the add-to-cart affordance changes
\* nothing in the overlay: no node of any card changes (the affordance stays
\* visible, no stepper is created or shown), no stepper render is scheduled
\* and no cart-update request is sent; a guest session never has a render
\* pending.
C20_GuestClickNoOp ==
  /\ [][(guest /\ AddToCartClick) =>
          /\ cards' = cards
          /\ renderTimers' = renderTimers
          /\ cartReqs' = cartReqs]_vars
  /\ [](guest => renderTimers = <<>>)

\* a guest has clicked Add to Cart with the script active: a card without
\* stepper shows its add-to-cart button and nothing is scheduled
C20_Witness ==
  /\ guest /\ guestClicked /\ qtyOn
  /\ renderTimers = <<>>
  /\ \E i \in 1..Len(cards) :
       /\ AddBtnVisible(cards[i])
       /\ QuerySelector(cards[i].nodes, {"qty"}) = 0

\* the field_filters parameter is absent, not valid JSON, or JSON null
Undecodable(rawFieldFilters) ==
  \/ ~rawFieldFilters.has
  \/ JSONParse(rawFieldFilters.val).exc
  \/ JSONParse(rawFieldFilters.val).v.t = "null"

\* C21: no exception leaves a facet handler or the render; when the
\* field_filters parameter of the page is absent, not valid JSON or JSON
\* null, the decode of the toggles and of the price apply gives the empty
\* mapping, the pre-check reads give no active value and the pre-fill read
\* no bound: no box is pre-checked, the sliders start at 0 and maxPrice, and
\* a toggle navigates to a mapping that holds at most the toggled key.
C21_DecodeNeverFails ==
  /\ [](~thrown)
  /\ [](Undecodable(href.field_filters) =>
          /\ DecodeFieldFilters(href.field_filters) = [exc |-> FALSE, v |-> EmptyMapping]
          /\ \A key \in {"offers_title", "badges"} :
               ActiveValues(href.field_filters, key) = [exc |-> FALSE, v |-> <<>>]
          /\ ActivePrice(href.field_filters) = [exc |-> FALSE, v |-> [from |-> NaN, to |-> NaN]]
          /\ (nav.has /\ focus = "boxes") =>
               ObjectKeysLength(DecodeFieldFilters(nav.url.field_filters).v) <= 1)
  /\ [][(Undecodable(href.field_filters) /\ facetsCall = "sent" /\ PriceWidget \in widgets')
          => /\ checkedBoxes' = {}
             /\ minSlider' = 0 /\ minInputBox' = Number(0)
             /\ maxSlider' = maxPrice' /\ maxInputBox' = Number(maxPrice')]_vars

\* the page was opened with field_filters that is not valid JSON, the
\* widgets are rendered and a checkbox toggle has started a navigation
C21_Witness ==
  /\ navs = 0
  /\ href.field_filters.has
  /\ JSONParse(href.field_filters.val).exc
  /\ PriceWidget \in widgets
  /\ nav.has
  /\ ~thrown

\* the field_filters parameter decodes to a mapping (a JSON object, or the
\* empty mapping of an undecodable parameter)
IsMapping(rawFieldFilters) == DecodeFieldFilters(rawFieldFilters).v.t = "obj"

\* the checkbox whose state this step changes
Toggled(box) ==
  /\ box \in widgets
  /\ (box \in checkedBoxes) # (box \in checkedBoxes')

\* a list without values
EmptyList(value) == value.t = "arr" /\ Len(value.items) = 0

ScenarioUrl ==
  LET u0 == [NoUrl EXCEPT !.field_filters =
               Param(<<Tok("{")>> \o Badges(<<StrTok(BadgeNew)>>) \o <<Tok("}")>>)]
      u1 == ApplyFieldFilterChange(u0, "badges", BadgeSale, TRUE).url
      u2 == ApplyFieldFilterChange(u1, "badges", BadgeNew, FALSE).url
  IN <<u1, u2, ApplyFieldFilterChange(u2, "badges", BadgeSale, FALSE).url>>

C23_FilterNavigationResetsPagination ==
  /\ [](nav.has => (nav.url.from_filters = Param(<<"1">>) /\ ~nav.url.start.has))
  /\ [][(nav' # nav /\ navs' = navs) =>
          /\ nav'.has
          /\ nav'.url.from_filters.has
          /\ ~nav'.url.start.has]_vars

\* Apply was activated on a page whose URL had start and no from_filters
C23_Witness ==
  /\ href.start.has
  /\ ~href.from_filters.has
  /\ focus = "price"
  /\ nav.has
  /\ nav.url.from_filters.has
  /\ ~nav.url.start.has

\* a list of string values
ListOf(values) == Arr([i \in 1..Len(values) |-> Str(values[i])])

\* C24: a checkbox toggle on a decoded mapping, read back from the URL it
\* navigates to: with included = true and the value absent the value is
\* appended after the existing values; with included = true and the value
\* present the list is unchanged; with included = false every occurrence is
\* removed; and a key whose list became empty is removed.
C24_ToggleValue ==
  [][\A box \in widgets :
       (Toggled(box) /\ IsMapping(href.field_filters) /\ nav'.has) =>
         LET before == ValuesOf(DecodeFieldFilters(href.field_filters).v, box[1])
             included == box \in checkedBoxes'
             present == \E i \in 1..Len(before) : before[i] = box[2]
             after == GetProp(DecodeFieldFilters(nav'.url.field_filters).v, box[1])
             rest == SelectSeq(before, LAMBDA v : v # box[2])
         IN /\ (included /\ ~present) => after = ListOf(before \o <<box[2]>>)
            /\ (included /\ present) => after = ListOf(before)
            /\ (~included /\ rest # <<>>) => after = ListOf(rest)
            /\ (~included /\ rest = <<>>) => after = Undefined]_vars

\* on the page opened with {"badges":["NEW"]}, NEW was unchecked and checked
\* again: the pending URL holds the list unchanged
C24_Witness ==
  /\ href.field_filters = Param(<<Tok("{")>> \o Badges(<<StrTok(BadgeNew)>>) \o <<Tok("}")>>)
  /\ focus = "boxes"
  /\ <<"badges", BadgeNew>> \in checkedBoxes
  /\ nav.has
  /\ nav.url.field_filters = href.field_filters

\* the URL reached from url by checking the box and, on the page that
\* navigation loads, unchecking it
OnThenOff(url, box) ==
  ApplyFieldFilterChange(ApplyFieldFilterChange(url, box[1], box[2], TRUE).url,
                         box[1], box[2], FALSE).url

\* a mapping without its keys of empty lists
WithoutEmptyKeys(fieldFilters) ==
  [fieldFilters EXCEPT !.props = SelectSeq(fieldFilters.props, LAMBDA p : ~EmptyList(p.v))]

\* C25 (as stated): for every mapping, name and value, toggling the value on
\* and then off gives the original mapping back, up to keys of empty lists.
C25_Original ==
  IsMapping(href.field_filters) =>
    \A box \in widgets \ {PriceWidget} :
      WithoutEmptyKeys(DecodeFieldFilters(OnThenOff(href, box).field_filters).v)
        = WithoutEmptyKeys(DecodeFieldFilters(href.field_filters).v)

\* C25 (amended): toggling a value on and then off leaves every other key as
\* it was and leaves under the toggled key the original values without the
\* toggled one, as strings, the key being removed when none is left; so the
\* mapping returns to its original form, up to the removal of an empty or
\* non-list key, exactly when the value was not selected before.
C25_OnThenOff ==
  IsMapping(href.field_filters) =>
    \A box \in widgets \ {PriceWidget} :
      LET old == DecodeFieldFilters(href.field_filters).v
          new == DecodeFieldFilters(OnThenOff(href, box).field_filters).v
          before == ValuesOf(old, box[1])
          rest == SelectSeq(before, LAMBDA v : v # box[2])
      IN /\ \A i \in 1..Len(old.props) :
              old.props[i].k # box[1] => GetProp(new, old.props[i].k) = old.props[i].v
         /\ \A i \in 1..Len(new.props) :
              new.props[i].k # box[1] => GetProp(old, new.props[i].k) = new.props[i].v
         /\ GetProp(new, box[1]) = IF rest = <<>> THEN Undefined ELSE ListOf(rest)
         /\ (rest = before /\ before # <<>>) => GetProp(new, box[1]) = GetProp(old, box[1])

\* SALE was checked on the page opened with {"badges":["NEW"]}, the
\* navigation loaded the page with both values, and SALE was unchecked there
C25_Witness ==
  /\ navs = 1
  /\ href.field_filters =
       Param(<<Tok("{")>> \o Badges(<<StrTok(BadgeNew), Tok(","), StrTok(BadgeSale)>>)
               \o <<Tok("}")>>)
  /\ <<"badges", BadgeSale>> \in widgets \ checkedBoxes
  /\ nav.has
  /\ nav.url.field_filters =
       Param(<<Tok("{")>> \o Badges(<<StrTok(BadgeNew)>>) \o <<Tok("}")>>)

\* the keys of a decoded value and the set of values under a key
KeySet(value) == {value.props[i].k : i \in 1..Len(value.props)}
ValueSet(value) ==
  IF value.t = "arr" THEN {value.items[i] : i \in 1..Len(value.items)} ELSE {value}

\* same keys, same value sets
Equivalent(a, b) ==
  /\ KeySet(a) = KeySet(b)
  /\ Len(a.items) = Len(b.items)
  /\ \A k \in KeySet(a) : ValueSet(GetProp(a, k)) = ValueSet(GetProp(b, k))

\* C26 (as stated): whenever a checkbox toggle or the price Apply writes its
\* filter state into a URL, decoding the field_filters of that URL gives a
\* mapping with the same keys and the same value sets as the state written.
C26_Original ==
  [][(nav' # nav /\ navs' = navs) =>
       LET old == DecodeFieldFilters(href.field_filters).v
           decoded == DecodeFieldFilters(nav'.url.field_filters).v
       IN /\ \A box \in widgets :
               Toggled(box) =>
                 Equivalent(ToggleValue(old, box[1], box[2], box \in checkedBoxes'), decoded)
          /\ focus = "price" =>
               Equivalent(PriceValues(old, Number(minSlider), Number(maxSlider)), decoded)]_vars

\* C27 (as stated): in every URL an encode path navigates to, each value of
\* a list the path wrote (a key it set or changed) is a string, the price
\* bounds included.
C27_Original ==
  nav.has =>
    LET old == DecodeFieldFilters(href.field_filters).v
        new == DecodeFieldFilters(nav.url.field_filters).v
    IN \A i \in 1..Len(new.props) :
         (new.props[i].v # GetProp(old, new.props[i].k) /\ new.props[i].v.t = "arr") =>
           \A j \in 1..Len(new.props[i].v.items) : new.props[i].v.items[j].t = "str"

\* a step of the rendered price widget that changes a handle or a box
PriceEdit ==
  /\ focus = "price" /\ focus' = "price"
  /\ PriceWidget \in widgets
  /\ <<minSlider, maxSlider, minInputBox, maxInputBox>>'
       # <<minSlider, maxSlider, minInputBox, maxInputBox>>

\* the edit left a box without a number: the handler returned before
\* enforceOrderContinuous
NotANumberEdit ==
  \/ minInputBox'.nan /\ minInputBox' # minInputBox
  \/ maxInputBox'.nan /\ maxInputBox' # maxInputBox

\* C28: after every handle move and every numeric-input edit that runs the
\* enforcement, the min handle is at most the max handle (the two values
\* are swapped when they were in the wrong order, so one of them is a value
\* a handle had or the value entered), the handles lie in the slider's
\* range, and the two numeric inputs show the handle values.
C28_SliderInvariant ==
  [][(PriceEdit /\ ~NotANumberEdit) =>
       /\ minSlider' <= maxSlider'
       /\ minSlider' \in 0..maxPrice /\ maxSlider' \in 0..maxPrice
       /\ minInputBox' = Number(minSlider')
       /\ maxInputBox' = Number(maxSlider')
       /\ \/ minSlider' \in {minSlider, maxSlider}
          \/ maxSlider' \in {minSlider, maxSlider}]_vars

\* the page opened with price_from 1500 and price_to 500 shows the handles
\* in the wrong order; a handle was moved and the enforcement swapped them
C28_Witness ==
  /\ PriceWidget \in widgets
  /\ minSlider = 500 /\ maxSlider = 1500
  /\ minInputBox = Number(500) /\ maxInputBox = Number(1500)

\* the price keys of a URL's field_filters
PriceKeys(url) ==
  LET v == DecodeFieldFilters(url.field_filters).v
  IN <<GetProp(v, "price_from"), GetProp(v, "price_to")>>

\* C29: no handle move and no numeric-input edit changes the URL or starts
\* a navigation; a navigation to a URL whose price_from or price_to differs
\* from the page's starts only in a step that leaves handles and boxes alone
\* (the Apply click), and carries the handle values of that moment.
C29_PriceAppliedOnlyOnApply ==
  /\ [][PriceEdit => (href' = href /\ nav' = nav)]_vars
  /\ [][(navs' = navs /\ nav' # nav /\ PriceKeys(nav'.url) # PriceKeys(href)) =>
          /\ focus = "price"
          /\ UNCHANGED <<minSlider, maxSlider, minInputBox, maxInputBox>>
          /\ PriceKeys(nav'.url) = <<Arr(<<Num(minSlider)>>), Arr(<<Num(maxSlider)>>)>>]_vars
  /\ []((nav.has /\ focus = "boxes") => PriceKeys(nav.url) = PriceKeys(href))

\* on the page opened without filters the min handle was moved to 1500 and
\* no navigation has started
C29_Witness ==
  /\ navs = 0
  /\ ~href.field_filters.has
  /\ PriceWidget \in widgets
  /\ minSlider = 1500
  /\ minInputBox = Number(1500)
  /\ ~nav.has

\* what the two scripts still have to do: scripts not started, cards without
\* a badge overlay, pending timeouts, requests in flight
RECURSIVE SumOver(_, _)
SumOver(f, S) ==
  IF S = {} THEN 0
  ELSE LET x == CHOOSE y \in S : TRUE IN f[x] + SumOver(f, S \ {x})

Remaining ==
  8 * Cardinality(scripts \ started)
  + 2 * Cardinality({i \in 1..Len(cards) : ~HasOverlay(cards[i].nodes, "badge")})
  + 2 * SumOver(timers, Kinds)
  + 2 * debounce.pending
  + 3 * Len(renderTimers)
  + SumOver([k \in Kinds |-> BagCardinality(inflight[k])], Kinds)

\* nothing is scheduled
NothingScheduled ==
  /\ scripts \subseteq started
  /\ \A k \in Kinds : timers[k] = 0 /\ inflight[k] = EmptyBag
  /\ debounce.pending = 0
  /\ renderTimers = <<>>

\* C30: once the renderer has stopped, every step the badge script or the
\* quantity script takes by itself (ready callback, expired timeout, sync
\* pass, response callback with its injection) lowers a natural number, so
\* only finitely many passes and fetches follow, the passes caused by the
\* scripts' own injections included; and when nothing is scheduled no such
\* step is possible.
C30_LoopBounded ==
  /\ [][(quiet /\ LoopTask) => (Remaining' < Remaining /\ Remaining' >= 0)]_vars
  /\ []((quiet /\ NothingScheduled) => ~ENABLED <<LoopTask>>_vars)

\* the renderer has stopped, both overlays are on a card, the last debounced
\* pass has run and nothing is scheduled
C30_Witness ==
  /\ quiet
  /\ NothingScheduled
  /\ debounce.handle = "fired"
  /\ \E i \in 1..Len(cards) :
       /\ HasOverlay(cards[i].nodes, "badge")
       /\ QuerySelector(cards[i].nodes, {"qty"}) # 0

\* the card after the callbacks of the answered requests reqs, in that order
RECURSIVE ProcessResponses(_, _)
ProcessResponses(card, reqs) ==
  IF reqs = <<>> THEN card
  ELSE ProcessResponses(UpdateQtyCallback(card, Head(reqs).qty, Head(reqs).st = "exc"),
                        Tail(reqs))

\* C31 (as stated): when the stepper of a card shows q and every outstanding
\* request is a '+' activation on that card made while it showed q, all of
\* them accepted by the backend, then once their responses are processed
\* the stepper shows q plus the number of activations.
C31_Original ==
  \A c \in 1..Len(cards) :
    LET wrapper == QuerySelector(cards[c].nodes, {"qty"})
    IN (/\ wrapper # 0
        /\ ~cards[c].nodes[wrapper].h
        /\ cartReqs # <<>>
        /\ \A j \in 1..Len(cartReqs) :
             /\ cartReqs[j].card = c
             /\ cartReqs[j].dir = "up"
             /\ cartReqs[j].st = "ok"
             /\ cartReqs[j].current = cards[c].nodes[wrapper].v)
       => Shown(ProcessResponses(cards[c], cartReqs))
            = cards[c].nodes[wrapper].v + Len(cartReqs)

\* C32 (as stated): every URL the Apply control navigates to holds a
\* price_from that is at most its price_to, whatever the URL of the page
\* held and whatever edits came before, none included.
C32_Original ==
  (nav.has /\ focus = "price") =>
    LET from == PriceKeys(nav.url)[1]
        to == PriceKeys(nav.url)[2]
    IN (/\ from.t = "arr" /\ Len(from.items) = 1 /\ from.items[1].t = "num"
        /\ to.t = "arr" /\ Len(to.items) = 1 /\ to.items[1].t = "num")
       => from.items[1].n <= to.items[1].n

\* the quantity steppers of a card
Steppers(card) == {j \in 1..Len(card.nodes) : card.nodes[j].k = "qty"}

\* C33: in every reachable state a card holds at most one quantity stepper,
\* and a step that shows a hidden stepper again (render timer after a click,
\* in-cart signal seen by the mutation observer) adds no node to the card.
C33_OneStepper ==
  /\ [](\A i \in 1..Len(cards) : Cardinality(Steppers(cards[i])) <= 1)
  /\ [][\A i \in 1..Len(cards) :
          (/\ Len(cards') = Len(cards)
           /\ Steppers(cards[i]) # {}
           /\ \A j \in Steppers(cards[i]) : cards[i].nodes[j].h
           /\ StepperVisible(cards'[i]))
          => /\ Len(cards'[i].nodes) = Len(cards[i].nodes)
             /\ Steppers(cards'[i]) = Steppers(cards[i])]_vars

\* a stepper hidden by a decrement to 0 was shown again by an in-cart signal:
\* the card has one stepper, visible, next to the add-to-cart button the
\* decrement had restored
C33_Witness ==
  \E i \in 1..Len(cards) :
    /\ Cardinality(Steppers(cards[i])) = 1
    /\ StepperVisible(cards[i])
    /\ AddBtnVisible(cards[i])

\* the keys of the mapping a handler step writes: the toggled filter name,
\* or price_from and price_to
WrittenKeys ==
  IF focus = "price" THEN {"price_from", "price_to"}
  ELSE {box[1] : box \in {b \in widgets : Toggled(b)}}

\* C34: a checkbox toggle changes only the entry of its filter name and a
\* price apply only price_from and price_to: every other key of the decoded
\* field_filters has the same value in the URL navigated to, no other key
\* appears, and the query parameter the handlers do not name (search) is
\* carried over unchanged.
C34_Cumulative ==
  /\ [][(nav' # nav /\ navs' = navs) =>
          LET old == DecodeFieldFilters(href.field_filters).v
              new == DecodeFieldFilters(nav'.url.field_filters).v
          IN /\ \A k \in (KeySet(old) \cup KeySet(new)) \ WrittenKeys :
                  GetProp(new, k) = GetProp(old, k)
             /\ new.items = old.items
             /\ nav'.url.search = href.search]_vars
  /\ [](nav.has => nav.url.search = href.search)

\* on the page opened with a price filter and search=tea, a badge was
\* checked: the pending URL holds the badge beside the price keys as they
\* were, and search=tea
C34_Witness ==
  /\ navs = 0
  /\ focus = "boxes"
  /\ nav.has
  /\ PriceKeys(href) = <<Arr(<<Str(<<"1", "5", "0", "0">>)>>), Arr(<<Num(500)>>)>>
  /\ PriceKeys(nav.url) = PriceKeys(href)
  /\ GetProp(DecodeFieldFilters(nav.url.field_filters).v, "badges") # Undefined
  /\ nav.url.search = Param(<<"t", "e", "a">>)

  /\ scripts \in PageConfigs \cup AllConfigs \cup FacetConfigs \cup LoopConfigs
  /\ started \subseteq scripts
  /\ listing \in BOOLEAN
  /\ Len(cards) <= MaxCards
  /\ \A k \in Kinds : timers[k] \in 0..3 /\ BagCardinality(inflight[k]) <= MaxInflight
  /\ debounce.pending \in 0..1
  /\ \A i \in 1..Len(cards) : \A j \in 1..Len(cards[i].nodes) :
       cards[i].nodes[j].v \in 0..MaxQty

====
